---- MODULE Spec2Model ----
(***************************************************************************)
(* machineutil: reconciliation of systemd-nspawn machines against a        *)
(* declarative configuration.                                              *)
(*                                                                         *)
(*   util (unit reconciler)    CompareOptions, ReadUnit, WriteUnit,        *)
(*                             EnsureUnit, SliceDiffFunc                   *)
(*                                                                         *)
(*   machineutil (machine      ListTemplates, Templates, GetMachine,       *)
(*   manager)                  Clone, Remove, Machine.Start/Stop,          *)
(*                             Machine.WaitForAddress, Job.Wait            *)
(*   cmd/machineutil           MountPoint, Machine.RunCommands,            *)
(*                             State.EnsureMachine, State.RemoveMachine,   *)
(*                             main                                        *)
(*                                                                         *)
(* Strings are ordered as Go's cmp.Compare orders them (byte-wise); the    *)
(* model keeps the strings it uses in the table Strings, in that order.    *)
(***************************************************************************)
EXTENDS Integers, Sequences, FiniteSets, TLC

VARIABLES
    dA,        \* SliceDiffFunc: first argument (desired, sorted)
    dB,        \* SliceDiffFunc: second argument (current, sorted)
    dOut,      \* SliceDiffFunc: the (add, keep, remove) it returned
    fs,        \* the file system: path -> body of the unit file (absent: no file)
    unitRes,   \* the last EnsureUnit call: arguments, what it saw, what it returned
    tImages,   \* the names of the images machined lists
    tDefault,  \* Config.DefaultTemplate
    tCatalog,  \* State.Templates: the Templates ListTemplates returned
    tResolved, \* the last DiscoverTemplate call: Machine.Template and the result
    aPoll,     \* WaitForAddress: what the last Addresses() call returned
    aOut,      \* WaitForAddress: where it is and what it returned
    norm,      \* MountPoint.Normalize: the mount, as given, after one call, now
    cmdRun,    \* RunCommands: the machine, its list, what has run, how it ended
    images,    \* machined: the names of the images that exist
    cMachines, \* machineUtil.machines: the names with a cached handle
    cloneRes,  \* the last Clone call: arguments, what it saw, what it returned
    status,    \* machined: machine name -> state ("none": not registered)
    jobs,      \* systemd: the jobs queued and not yet finished
    cfgId,     \* which configuration file the tool is given
    mode,      \* the -mode flag
    config,    \* main: the decoded Config (Normalize and the run flags change it)
    sTemplates,\* State.Templates
    sMachines, \* State.Machines: the fqdns with a handle
    pc,        \* where the run is
    idx,       \* main: the index of the machine the loop is at
    loc,       \* the locals of the functions the run is in
    log,       \* what the run has asked the world to do, in order
    exit,      \* how the run ended ("run": it has not)
    faulted,   \* an RPC or a file operation of this run has failed
    run,       \* "first" or "second" run of the tool on this host
    first,     \* how the first run ended and the kinds of thing it did
    ext        \* the world changed after the first run ended

varsDiff == <<dA, dB, dOut>>
varsUnit == <<fs, unitRes>>
varsTmpl == <<tImages, tDefault, tCatalog, tResolved>>
varsAddr == <<aPoll, aOut>>
varsCmds == <<cmdRun>>
varsNorm == <<norm>>
varsMgr  == <<images, cMachines, cloneRes>>
varsRun  == <<status, jobs, cfgId, mode, config, sTemplates, sMachines, pc, idx,
              loc, log, exit, faulted, run, first, ext>>
vars == <<dA, dB, dOut, fs, unitRes, tImages, tDefault, tCatalog, tResolved,
          aPoll, aOut, norm, cmdRun, images, cMachines, cloneRes, status, jobs, cfgId,
          mode, config, sTemplates, sMachines, pc, idx, loc, log, exit, faulted,
          run, first, ext>>

-----------------------------------------------------------------------------
(* Bounds *)

\* longest option list of a unit file or of a desired set in SpecUnit
MaxOpts == 2

\* most images of a listing in SpecTmpl
MaxImages == 3

\* most addresses one Addresses() call returns in SpecAddr
MaxAddrs == 3

\* longest command list of one kind in SpecCmds
MaxCmds == 2

-----------------------------------------------------------------------------
(* The parts of the state a specification does not use stay as they are here *)

NoDiff == [add |-> <<>>, keep |-> <<>>, remove |-> <<>>, done |-> FALSE]

IdleDiff == dA = <<>> /\ dB = <<>> /\ dOut = NoDiff

NoCall ==
    [called |-> FALSE, path |-> "", opts |-> <<>>, before |-> <<>>,
     existed |-> FALSE, changed |-> FALSE, err |-> FALSE, ops |-> <<>>,
     untouched |-> TRUE, repeat |-> "no"]

IdleUnit == fs = <<>> /\ unitRes = NoCall

NotListed == [listed |-> FALSE, Default |-> <<>>, Templates |-> <<>>]

NotResolved == [called |-> FALSE, explicit |-> <<>>, found |-> FALSE,
                template |-> <<>>, err |-> FALSE]

IdleTmpl ==
    /\ tImages = {} /\ tDefault = <<>>
    /\ tCatalog = NotListed /\ tResolved = NotResolved

NoPoll == [polled |-> FALSE, err |-> FALSE, addrs |-> <<>>]

NotWaiting == [state |-> "idle", result |-> <<>>]

IdleAddr == aPoll = NoPoll /\ aOut = NotWaiting

NoCmdRun == [state |-> "idle", m |-> <<>>, cmds |-> <<>>, ran |-> <<>>, fail |-> 0]

IdleCmds == cmdRun = NoCmdRun

NoNorm == [calls |-> 0, given |-> <<>>, once |-> <<>>, now |-> <<>>]

IdleNorm == norm = NoNorm

NoClone ==
    [called |-> FALSE, src |-> <<>>, dst |-> <<>>, existed |-> FALSE,
     srcExisted |-> FALSE, faults |-> <<>>, machine |-> <<>>, err |-> "",
     requests |-> <<>>, present |-> FALSE]

IdleMgr == images = {} /\ cMachines = {} /\ cloneRes = NoClone

NoLocals == <<>>

NoFirst == [exit |-> "", faulted |-> FALSE, did |-> {}]

IdleRun ==
    /\ status = <<>> /\ jobs = {} /\ cfgId = "" /\ mode = ""
    /\ config = <<>> /\ sTemplates = NotListed /\ sMachines = {}
    /\ pc = "" /\ idx = 0 /\ loc = NoLocals /\ log = <<>> /\ exit = ""
    /\ faulted = FALSE /\ run = "" /\ first = NoFirst /\ ext = FALSE

-----------------------------------------------------------------------------
(* Strings and their order *)

\* every string the model compares, in byte order (cmp.Compare on strings)
Strings ==
    << "/dev/vdb", "/dev/vdc", "/dev/vdd", "/srv/logs",
       "/srv/logs:/var/log:idmap", "/var/lib/machines/data",
       "/var/lib/machines/data:/data:idmap", "After", "Bind", "Boot",
       "Description", "Environment", "Exec", "Files", "LANG=C",
       "Machineutil mountpoint data", "Machineutil mountpoint logs", "Mount",
       "Options", "RequiresMountsFor", "Service", "Type", "Unit", "What",
       "Where", "blockdev@dev-vdb", "blockdev@dev-vdc", "blockdev@dev-vdd",
       "defaults", "defaults,noatime",
       "defaults,noatime,x-systemd.makefs,x-systemd.growfs", "ext4", "no",
       "noatime", "noatime,x-systemd.makefs,x-systemd.growfs",
       "x-systemd.makefs,x-systemd.growfs", "yes" >>

StrRank ==
    [s \in {Strings[i] : i \in 1..Len(Strings)} |->
        CHOOSE i \in 1..Len(Strings) : Strings[i] = s]

\* cmp.Compare(a, b) for strings
Compare(a, b) ==
    IF StrRank[a] < StrRank[b] THEN -1
    ELSE IF StrRank[a] > StrRank[b] THEN 1
    ELSE 0

Opt(s, n, v) == [Section |-> s, Name |-> n, Value |-> v]

-----------------------------------------------------------------------------
(* util: CompareOptions, SliceDiffFunc *)

CompareOptions(a, b) ==
    LET c1 == Compare(a.Section, b.Section)
        c2 == Compare(a.Name, b.Name)
    IN  IF c1 # 0 THEN c1
        ELSE IF c2 # 0 THEN c2
        ELSE Compare(a.Value, b.Value)

\* slices.SortFunc(opts, CompareOptions): elements that compare equal are the
\* same triple, so the sorted list is unique
RECURSIVE InsertSorted(_, _)
InsertSorted(o, s) ==
    IF s = <<>> THEN <<o>>
    ELSE IF CompareOptions(o, Head(s)) <= 0 THEN <<o>> \o s
    ELSE <<Head(s)>> \o InsertSorted(o, Tail(s))

RECURSIVE SortOpts(_)
SortOpts(s) ==
    IF s = <<>> THEN <<>> ELSE InsertSorted(Head(s), SortOpts(Tail(s)))

\* the keep branch of a buggy merge: the current element is kept and only the
\* desired index advances
RECURSIVE MergeKeepStuck(_, _, _, _, _)
MergeKeepStuck(a, b, i, j, acc) ==
    IF i <= Len(a) /\ j <= Len(b) THEN
        LET c == CompareOptions(a[i], b[j]) IN
        IF c < 0 THEN
            MergeKeepStuck(a, b, i + 1, j, [acc EXCEPT !.add = Append(@, a[i])])
        ELSE IF c > 0 THEN
            MergeKeepStuck(a, b, i, j + 1, [acc EXCEPT !.remove = Append(@, b[j])])
        ELSE
            MergeKeepStuck(a, b, i + 1, j, [acc EXCEPT !.keep = Append(@, b[j])])
    ELSE
        [add    |-> acc.add \o SubSeq(a, i, Len(a)),
         keep   |-> acc.keep,
         remove |-> acc.remove \o SubSeq(b, j, Len(b))]

\* the loop of SliceDiffFunc, from indices i, j (1-based) with the results so far
RECURSIVE Merge(_, _, _, _, _)
Merge(a, b, i, j, acc) ==
    IF i <= Len(a) /\ j <= Len(b) THEN
        LET c == CompareOptions(a[i], b[j]) IN
        IF c < 0 THEN
            Merge(a, b, i + 1, j, [acc EXCEPT !.add = Append(@, a[i])])
        ELSE IF c > 0 THEN
            Merge(a, b, i, j + 1, [acc EXCEPT !.remove = Append(@, b[j])])
        ELSE
            Merge(a, b, i + 1, j + 1, [acc EXCEPT !.keep = Append(@, b[j])])
    ELSE
        [add    |-> acc.add \o SubSeq(a, i, Len(a)),
         keep   |-> acc.keep,
         remove |-> acc.remove \o SubSeq(b, j, Len(b))]

SliceDiffFunc(a, b) ==
    Merge(a, b, 1, 1, [add |-> <<>>, keep |-> <<>>, remove |-> <<>>])

Range(s) == {s[i] : i \in 1..Len(s)}

-----------------------------------------------------------------------------
(* SpecDiff: SliceDiffFunc on two sorted sets of options *)

DiffOptions ==
    { Opt("Exec", "Boot", "no"), Opt("Exec", "Boot", "yes"),
      Opt("Files", "Bind", "no"), Opt("Files", "Boot", "no") }

\* the sorted, duplicate-free lists over a set of options
RECURSIVE SetToSeq(_)
SetToSeq(S) ==
    IF S = {} THEN <<>>
    ELSE LET x == CHOOSE x \in S : TRUE IN <<x>> \o SetToSeq(S \ {x})

SortedSets(U) == {SortOpts(SetToSeq(S)) : S \in SUBSET U}

InitDiff ==
    /\ dA \in SortedSets(DiffOptions)
    /\ dB \in SortedSets(DiffOptions)
    /\ dOut = NoDiff
    /\ IdleUnit /\ IdleTmpl /\ IdleAddr /\ IdleCmds /\ IdleNorm /\ IdleMgr /\ IdleRun

CallSliceDiff ==
    /\ ~dOut.done
    /\ LET r == SliceDiffFunc(dA, dB) IN
         dOut' = [add |-> r.add, keep |-> r.keep, remove |-> r.remove, done |-> TRUE]
    /\ UNCHANGED <<dA, dB>>

NextDiff == CallSliceDiff /\ UNCHANGED <<varsUnit, varsTmpl, varsAddr, varsCmds, varsMgr, varsNorm, varsRun>>

\* C1: for sorted sets A (desired) and B (current) SliceDiffFunc returns
\* add = A \ B, remove = B \ A, keep = A \cap B, each without a repeated element,
\* pairwise disjoint, and add and keep together, put in order, are exactly A.
DiffPartition ==
    dOut.done =>
        /\ Range(dOut.add) = Range(dA) \ Range(dB)
        /\ Range(dOut.remove) = Range(dB) \ Range(dA)
        /\ Range(dOut.keep) = Range(dA) \cap Range(dB)
        /\ Len(dOut.add) = Cardinality(Range(dOut.add))
        /\ Len(dOut.keep) = Cardinality(Range(dOut.keep))
        /\ Len(dOut.remove) = Cardinality(Range(dOut.remove))
        /\ Range(dOut.add) \cap Range(dOut.keep) = {}
        /\ Range(dOut.add) \cap Range(dOut.remove) = {}
        /\ Range(dOut.keep) \cap Range(dOut.remove) = {}
        /\ SortOpts(dOut.add \o dOut.keep) = dA

\* C1 witness: a diff in which all three partitions are non-empty and the add
\* and remove runs are interleaved with a kept option
DiffAllThree ==
    /\ dOut.done
    /\ Len(dOut.add) >= 2 /\ Len(dOut.keep) >= 1 /\ Len(dOut.remove) >= 1

-----------------------------------------------------------------------------
(* util: the unit file, ReadUnit, WriteUnit, EnsureUnit *)

\* unit.Serialize: the options grouped by section, the sections in the order in
\* which they are first seen; a body is a list of [Section, Lines] blocks
RECURSIVE AddToBlocks(_, _)
AddToBlocks(blocks, o) ==
    IF blocks = <<>> THEN
        << [Section |-> o.Section, Lines |-> << <<o.Name, o.Value>> >>] >>
    ELSE IF Head(blocks).Section = o.Section THEN
        << [Head(blocks) EXCEPT !.Lines = Append(@, <<o.Name, o.Value>>)] >>
            \o Tail(blocks)
    ELSE <<Head(blocks)>> \o AddToBlocks(Tail(blocks), o)

RECURSIVE SerializeFrom(_, _)
SerializeFrom(opts, blocks) ==
    IF opts = <<>> THEN blocks
    ELSE SerializeFrom(Tail(opts), AddToBlocks(blocks, Head(opts)))

Serialize(opts) == SerializeFrom(opts, <<>>)

\* unit.Deserialize: the options of a body in file order
RECURSIVE Deserialize(_)
Deserialize(body) ==
    IF body = <<>> THEN <<>>
    ELSE [i \in 1..Len(Head(body).Lines) |->
             Opt(Head(body).Section, Head(body).Lines[i][1], Head(body).Lines[i][2])]
         \o Deserialize(Tail(body))

Exists(fsys, path) == path \in DOMAIN fsys

RemoveFile(fsys, path) == [p \in (DOMAIN fsys) \ {path} |-> fsys[p]]

CreateFile(fsys, path, body) ==
    [p \in (DOMAIN fsys) \cup {path} |-> IF p = path THEN body ELSE fsys[p]]

\* ReadUnit: a missing file reads as no options
ReadUnit(fsys, path, sorted) ==
    IF ~Exists(fsys, path) THEN <<>>
    ELSE IF sorted THEN SortOpts(Deserialize(fsys[path]))
    ELSE Deserialize(fsys[path])

\* a WriteUnit that writes an empty body instead of removing the file
WriteUnitEmptyBody(fsys, path, opts, fault) ==
    IF fault = "write" THEN [fs |-> fsys, ops |-> <<>>, err |-> TRUE]
    ELSE IF fault = "copy" /\ Len(opts) > 0 THEN
        [fs |-> CreateFile(fsys, path, <<>>), ops |-> <<"MkdirAll", "Create">>,
         err |-> TRUE]
    ELSE [fs |-> CreateFile(fsys, path, Serialize(opts)),
          ops |-> <<"MkdirAll", "Create">>, err |-> FALSE]

\* WriteUnit; fault "write": Stat, Remove, MkdirAll or Create fails and the file
\* is as before; fault "copy": Create truncated the file and the copy failed
WriteUnit(fsys, path, opts, fault) ==
    IF fault = "write" THEN [fs |-> fsys, ops |-> <<>>, err |-> TRUE]
    ELSE IF Len(opts) = 0 THEN
        IF Exists(fsys, path)
        THEN [fs |-> RemoveFile(fsys, path), ops |-> <<"Remove">>, err |-> FALSE]
        ELSE [fs |-> fsys, ops |-> <<>>, err |-> FALSE]
    ELSE IF fault = "copy" THEN
        [fs |-> CreateFile(fsys, path, <<>>), ops |-> <<"MkdirAll", "Create">>,
         err |-> TRUE]
    ELSE [fs |-> CreateFile(fsys, path, Serialize(opts)),
          ops |-> <<"MkdirAll", "Create">>, err |-> FALSE]

\* an EnsureUnit that rewrites the file whenever the desired list is not empty
EnsureUnitAlwaysWrite(fsys, path, in_opts, fault) ==
    LET opts == SortOpts(in_opts)
        d    == SliceDiffFunc(opts, ReadUnit(fsys, path, TRUE))
        w    == WriteUnit(fsys, path, opts, fault)
    IN  IF fault = "read" THEN
            [changed |-> FALSE, err |-> TRUE, fs |-> fsys, ops |-> <<>>]
        ELSE IF Len(d.add) = 0 /\ Len(d.remove) = 0 /\ Len(opts) = 0 THEN
            [changed |-> FALSE, err |-> FALSE, fs |-> fsys, ops |-> <<>>]
        ELSE [changed |-> TRUE, err |-> w.err, fs |-> w.fs, ops |-> w.ops]

\* EnsureUnit; fault "read": Stat, Open or Deserialize of ReadUnit fails
EnsureUnit(fsys, path, in_opts, fault) ==
    LET opts == SortOpts(in_opts)
        d    == SliceDiffFunc(opts, ReadUnit(fsys, path, TRUE))
        w    == WriteUnit(fsys, path, opts, fault)
    IN  IF fault = "read" THEN
            [changed |-> FALSE, err |-> TRUE, fs |-> fsys, ops |-> <<>>]
        ELSE IF Len(d.add) = 0 /\ Len(d.remove) = 0 THEN
            [changed |-> FALSE, err |-> FALSE, fs |-> fsys, ops |-> <<>>]
        ELSE [changed |-> TRUE, err |-> w.err, fs |-> w.fs, ops |-> w.ops]

-----------------------------------------------------------------------------
(* SpecUnit: EnsureUnit called again and again on a file system nobody else    *)
(* writes                                                                      *)

UnitOptions ==
    { Opt("Exec", "Boot", "no"), Opt("Exec", "Boot", "yes"),
      Opt("Files", "Bind", "no") }

UnitPaths == { "/etc/systemd/nspawn/m1.nspawn" }

SeqsUpTo(U, n) == UNION {[1..k -> U] : k \in 0..n}

\* a hand-written unit file: every option under a section header of its own, in
\* any order
RawBody(opts) ==
    [i \in 1..Len(opts) |->
        [Section |-> opts[i].Section, Lines |-> << <<opts[i].Name, opts[i].Value>> >>]]

InitBodies == {RawBody(s) : s \in SeqsUpTo(UnitOptions, MaxOpts)}

InitFileSystems ==
    UNION {[P -> InitBodies] : P \in SUBSET UnitPaths}

Faults == {"none", "read", "write", "copy"}

InitUnit ==
    /\ fs \in InitFileSystems
    /\ unitRes = NoCall
    /\ IdleDiff /\ IdleTmpl /\ IdleAddr /\ IdleCmds /\ IdleNorm /\ IdleMgr /\ IdleRun

CallEnsureUnit ==
    \E path \in UnitPaths, in_opts \in SeqsUpTo(UnitOptions, MaxOpts),
       fault \in Faults :
        \E r \in {EnsureUnit(fs, path, in_opts, fault)} :
        /\ fs' = r.fs
        /\ unitRes' =
              [called    |-> TRUE,
               path      |-> path,
               opts      |-> in_opts,
               before    |-> ReadUnit(fs, path, TRUE),
               existed   |-> Exists(fs, path),
               changed   |-> r.changed,
               err       |-> r.err,
               ops       |-> r.ops,
               untouched |-> (r.fs = fs),
               repeat    |->
                   IF unitRes.called /\ ~unitRes.err /\ unitRes.path = path
                      /\ unitRes.opts = in_opts
                   THEN (IF unitRes.changed THEN "afterChanged" ELSE "afterUnchanged")
                   ELSE "no"]

NextUnit == CallEnsureUnit /\ UNCHANGED <<varsDiff, varsTmpl, varsAddr, varsCmds, varsMgr, varsNorm, varsRun>>

\* C2: an EnsureUnit(path, A) that returns without error reports changed exactly
\* when A differs from the persisted options B, and leaves the persisted options
\* (read back in sorted order) equal to A sorted; when it wrote, the body is the
\* serialization of A sorted. An EnsureUnit(path, A) right after a successful
\* EnsureUnit(path, A) reports unchanged and does not touch the file system.
EnsureUnitIdempotent ==
    (unitRes.called /\ ~unitRes.err) =>
        /\ unitRes.changed <=> (SortOpts(unitRes.opts) # unitRes.before)
        /\ ReadUnit(fs, unitRes.path, TRUE) = SortOpts(unitRes.opts)
        /\ (unitRes.changed /\ unitRes.opts # <<>>) =>
               fs[unitRes.path] = Serialize(SortOpts(unitRes.opts))
        /\ (unitRes.repeat # "no") =>
               (~unitRes.changed /\ unitRes.ops = <<>> /\ unitRes.untouched)

\* C2 witness: the second of two equal calls, the first of which changed a file
\* that held other options
EnsureUnitTwice ==
    /\ unitRes.called /\ ~unitRes.err
    /\ unitRes.repeat = "afterChanged"
    /\ Len(unitRes.opts) = 2
    /\ unitRes.opts # SortOpts(unitRes.opts)

\* C3: EnsureUnit with no desired options removes an existing file that holds
\* options (one Remove, no rewrite) and reports changed; for a missing file it
\* reports unchanged and leaves the file system as it is.
EmptySetDeletes ==
    (unitRes.called /\ ~unitRes.err /\ unitRes.opts = <<>>) =>
        /\ (unitRes.existed /\ unitRes.before # <<>>) =>
               /\ unitRes.changed
               /\ unitRes.ops = <<"Remove">>
               /\ ~Exists(fs, unitRes.path)
        /\ ~unitRes.existed =>
               /\ ~unitRes.changed
               /\ unitRes.ops = <<>>
               /\ unitRes.untouched
               /\ ~Exists(fs, unitRes.path)

\* C3 witness: an empty desired set met a file with options
EmptySetMetFile ==
    /\ unitRes.called /\ ~unitRes.err /\ unitRes.opts = <<>>
    /\ unitRes.existed /\ unitRes.before # <<>> /\ unitRes.changed

-----------------------------------------------------------------------------
(* machineutil: Template, TemplateVersions, Templates, ListTemplates          *)
(*                                                                             *)
(* An image name is a list of tokens: a name part, the marker "-template_",   *)
(* the characters of a version.                                                *)

MARK == "-template_"

DigitChars == << "0", "1", "2", "3", "4", "5", "6", "7", "8", "9" >>

IsDigit(c) == \E d \in 1..10 : DigitChars[d] = c

DigitVal(c) == (CHOOSE d \in 1..10 : DigitChars[d] = c) - 1

\* the value of a non-empty list of digits
RECURSIVE DigitsVal(_, _)
DigitsVal(s, acc) ==
    IF s = <<>> THEN acc ELSE DigitsVal(Tail(s), 10 * acc + DigitVal(Head(s)))

AllDigits(s) == s # <<>> /\ \A i \in 1..Len(s) : IsDigit(s[i])

\* strconv.Atoi: an optional sign, then one or more decimal digits
Atoi(s) ==
    IF s # <<>> /\ Head(s) \in {"+", "-"} THEN
        IF AllDigits(Tail(s))
        THEN [ok |-> TRUE,
              val |-> IF Head(s) = "-" THEN 0 - DigitsVal(Tail(s), 0)
                      ELSE DigitsVal(Tail(s), 0)]
        ELSE [ok |-> FALSE, val |-> 0]
    ELSE IF AllDigits(s) THEN [ok |-> TRUE, val |-> DigitsVal(s, 0)]
    ELSE [ok |-> FALSE, val |-> 0]

\* strconv.Itoa
RECURSIVE Itoa(_)
Itoa(n) ==
    IF n < 0 THEN <<"-">> \o Itoa(0 - n)
    ELSE IF n < 10 THEN <<DigitChars[n + 1]>>
    ELSE Itoa(n \div 10) \o <<DigitChars[(n % 10) + 1]>>

\* strings.Cut(s, "-template_")
Cut(s) ==
    IF \E i \in 1..Len(s) : s[i] = MARK THEN
        LET i == CHOOSE k \in 1..Len(s) :
                     s[k] = MARK /\ \A m \in 1..(k - 1) : s[m] # MARK
        IN  [before |-> SubSeq(s, 1, i - 1), after |-> SubSeq(s, i + 1, Len(s)),
             found |-> TRUE]
    ELSE [before |-> s, after |-> <<>>, found |-> FALSE]

\* Template.Image
Image(t) == t.Name \o <<MARK>> \o Itoa(t.Version)

\* TemplateVersions.Less on two templates of one list; ListTemplates sorts the
\* list of one name, so the names are equal and the versions decide
Less(x, y) == x.Name = y.Name /\ x.Version < y.Version

\* the Template values ListTemplates makes of a listing; object is the image the
\* template was made from
ParsedTemplates(listing) ==
    { [Name |-> Cut(img).before, Version |-> Atoi(Cut(img).after).val, object |-> img] :
        img \in {i \in listing : Cut(i).found /\ Atoi(Cut(i).after).ok} }

Orderings(S) ==
    {f \in [1..Cardinality(S) -> S] : \A x \in S : \E i \in DOMAIN f : f[i] = x}

\* sort.Sort(imglst): not stable, so templates of equal version may end in
\* either order
SortedVersions(G) ==
    {s \in Orderings(G) :
        \A i \in 1..Len(s) : \A j \in (i + 1)..Len(s) : ~Less(s[j], s[i])}

\* the maps ListTemplates may return for a listing
Catalogs(listing) ==
    LET all   == ParsedTemplates(listing)
        names == {t.Name : t \in all}
    IN  {c \in [names -> UNION {SortedVersions({t \in all : t.Name = n}) : n \in names}] :
            \A n \in names : c[n] \in SortedVersions({t \in all : t.Name = n})}

\* Templates[name] of a Go map: a missing key is the nil slice
Group(cat, name) ==
    IF name \in DOMAIN cat.Templates THEN cat.Templates[name] ELSE <<>>

NilTemplate == [found |-> FALSE, template |-> <<>>]

\* TemplateVersions.Template: the last one
TemplateVersionsTemplate(tv) ==
    IF Len(tv) = 0 THEN NilTemplate
    ELSE [found |-> TRUE, template |-> tv[Len(tv)]]

\* a Get that walks the versions from the front
TemplateVersionsGetFirst(tv, name) ==
    IF \E i \in 1..Len(tv) : tv[i].Name = name THEN
        [found |-> TRUE,
         template |-> tv[CHOOSE i \in 1..Len(tv) :
                            tv[i].Name = name
                            /\ \A k \in 1..(i - 1) : tv[k].Name # name]]
    ELSE NilTemplate

\* TemplateVersions.Get: from the end, the first whose Template.Get(name) is
\* not nil
TemplateVersionsGet(tv, name) ==
    IF \E i \in 1..Len(tv) : tv[i].Name = name THEN
        [found |-> TRUE,
         template |-> tv[CHOOSE i \in 1..Len(tv) :
                            tv[i].Name = name
                            /\ \A k \in (i + 1)..Len(tv) : tv[k].Name # name]]
    ELSE NilTemplate

\* Templates.Get
TemplatesGet(cat, name) ==
    LET n == IF name = <<>> THEN cat.Default ELSE name
    IN  TemplateVersionsGet(Group(cat, n), n)

\* Templates.Template
TemplatesTemplate(cat) == TemplateVersionsTemplate(Group(cat, cat.Default))

\* State.DiscoverTemplate for a Machine whose Template field is explicit
DiscoverTemplate(cat, explicit) ==
    LET r == IF explicit = <<>> THEN TemplatesTemplate(cat)
             ELSE TemplatesGet(cat, explicit)
    IN  [found |-> r.found, template |-> r.template, err |-> ~r.found]

-----------------------------------------------------------------------------
(* SpecTmpl: one listing, then template lookups *)

TemplateNames == { <<"base">>, <<"web">> }

VersionStrings ==
    { <<"1">>, <<"2">>, <<"1", "0">>, <<"0", "1">>, <<"+", "1">>, <<"-", "1">>,
      <<"x">>, <<>> }

ImageNames ==
    TemplateNames
    \cup {n \o <<MARK>> \o v : n \in TemplateNames, v \in VersionStrings}
    \cup { <<"base", MARK, "1", MARK, "2">>, <<MARK, "1">> }

DefaultNames == TemplateNames \cup { <<>>, <<"none">> }

ExplicitNames == TemplateNames \cup { <<>>, <<"none">> }

InitTmpl ==
    /\ tImages \in {S \in SUBSET ImageNames : Cardinality(S) <= MaxImages}
    /\ tDefault \in DefaultNames
    /\ tCatalog = NotListed
    /\ tResolved = NotResolved
    /\ IdleDiff /\ IdleUnit /\ IdleAddr /\ IdleCmds /\ IdleNorm /\ IdleMgr /\ IdleRun

\* NewState: ListTemplates(config.DefaultTemplate)
CallListTemplates ==
    /\ ~tCatalog.listed
    /\ \E c \in Catalogs(tImages) :
          tCatalog' = [listed |-> TRUE, Default |-> tDefault, Templates |-> c]
    /\ UNCHANGED <<tImages, tDefault, tResolved>>

CallDiscoverTemplate ==
    /\ tCatalog.listed
    /\ \E explicit \in ExplicitNames :
        \E r \in {DiscoverTemplate(tCatalog, explicit)} :
          tResolved' = [called |-> TRUE, explicit |-> explicit, found |-> r.found,
                        template |-> r.template, err |-> r.err]
    /\ UNCHANGED <<tImages, tDefault, tCatalog>>

NextTmpl ==
    \/ CallListTemplates /\ UNCHANGED <<varsDiff, varsUnit, varsAddr, varsCmds, varsMgr, varsNorm, varsRun>>
    \/ CallDiscoverTemplate /\ UNCHANGED <<varsDiff, varsUnit, varsAddr, varsCmds, varsMgr, varsNorm, varsRun>>

\* the templates of the catalog
CatalogTemplates ==
    UNION {Range(tCatalog.Templates[n]) : n \in DOMAIN tCatalog.Templates}

\* the name a lookup asks for
WantedName == IF tResolved.explicit = <<>> THEN tCatalog.Default ELSE tResolved.explicit

\* C5: a lookup without explicit name returns a template of the default name
\* whose version is the highest among the catalog's templates of that name; with
\* an explicit name, the same for that name; when the catalog has no template of
\* the wanted name the result is nil and DiscoverTemplate returns an error.
ResolveHighest ==
    tResolved.called =>
        LET cands == {t \in CatalogTemplates : t.Name = WantedName} IN
        /\ tResolved.found <=> cands # {}
        /\ tResolved.err <=> cands = {}
        /\ tResolved.found =>
              /\ tResolved.template \in cands
              /\ \A t \in cands : t.Version <= tResolved.template.Version

\* C5 witness: versions 1, 2 and 10 of "base" are listed, "base" is the
\* default, and a lookup without explicit name has returned version 10
ResolvedAmongThree ==
    /\ tResolved.called /\ tResolved.explicit = <<>> /\ tResolved.found
    /\ tCatalog.Default = <<"base">>
    /\ {t.Version : t \in {u \in CatalogTemplates : u.Name = <<"base">>}} = {1, 2, 10}
    /\ tResolved.template.Version = 10

-----------------------------------------------------------------------------
(* machineutil: Machine.Addresses, Machine.WaitForAddress                     *)
(*                                                                             *)
(* An address is netip.Addr's value: version 4 with four bytes, or version 6  *)
(* with eight 16-bit groups.                                                   *)

V4(a, b, c, d) == [v |-> 4, b |-> <<a, b, c, d>>]

V6(g1, g2, g3, g4, g5, g6, g7, g8) == [v |-> 6, b |-> <<g1, g2, g3, g4, g5, g6, g7, g8>>]

AllZero(a) == \A i \in 1..Len(a.b) : a.b[i] = 0

\* netip.Addr.IsUnspecified: 0.0.0.0 or ::
IsUnspecified(a) == AllZero(a)

\* netip.Addr.IsLoopback: 127.0.0.0/8 or ::1
IsLoopback(a) ==
    IF a.v = 4 THEN a.b[1] = 127
    ELSE (\A i \in 1..7 : a.b[i] = 0) /\ a.b[8] = 1

\* netip.Addr.IsLinkLocalUnicast: 169.254.0.0/16 or fe80::/10
IsLinkLocalUnicast(a) ==
    IF a.v = 4 THEN a.b[1] = 169 /\ a.b[2] = 254
    ELSE a.b[1] \div 64 = 65152 \div 64

\* netip.Addr.IsLinkLocalMulticast: 224.0.0.0/24 or ff02::/16 (any flags)
IsLinkLocalMulticast(a) ==
    IF a.v = 4 THEN a.b[1] = 224 /\ a.b[2] = 0 /\ a.b[3] = 0
    ELSE a.b[1] \div 256 = 255 /\ a.b[1] % 16 = 2

\* netip.Addr.IsInterfaceLocalMulticast: ff01::/16 (any flags), never for IPv4
IsInterfaceLocalMulticast(a) ==
    a.v = 6 /\ a.b[1] \div 256 = 255 /\ a.b[1] % 16 = 1

\* netip.Addr.IsMulticast: 224.0.0.0/4 or ff00::/8
IsMulticast(a) ==
    IF a.v = 4 THEN a.b[1] \div 16 = 14
    ELSE a.b[1] \div 256 = 255

\* a WaitForAddress whose switch has no case for link-local unicast
RECURSIVE FilterAddrsNoLinkLocal(_)
FilterAddrsNoLinkLocal(addrs) ==
    IF addrs = <<>> THEN <<>>
    ELSE LET a == Head(addrs) IN
         (CASE IsUnspecified(a) -> <<>>
            [] IsLoopback(a) -> <<>>
            [] IsLinkLocalMulticast(a) -> <<>>
            [] IsInterfaceLocalMulticast(a) -> <<>>
            [] IsMulticast(a) -> <<>>
            [] OTHER -> <<a>>) \o FilterAddrsNoLinkLocal(Tail(addrs))

\* the for loop with the switch of WaitForAddress; Addresses() returns only
\* addresses netip.AddrFromSlice accepted, so the !IsValid case takes none
RECURSIVE FilterAddrs(_)
FilterAddrs(addrs) ==
    IF addrs = <<>> THEN <<>>
    ELSE LET a == Head(addrs) IN
         (CASE IsUnspecified(a) -> <<>>
            [] IsLoopback(a) -> <<>>
            [] IsLinkLocalUnicast(a) -> <<>>
            [] IsLinkLocalMulticast(a) -> <<>>
            [] IsInterfaceLocalMulticast(a) -> <<>>
            [] IsMulticast(a) -> <<>>
            [] OTHER -> <<a>>) \o FilterAddrs(Tail(addrs))

-----------------------------------------------------------------------------
(* SpecAddr: WaitForAddress polling a machine whose addresses change freely *)

Addr127001 == V4(127, 0, 0, 1)
AddrFe80 == V6(65152, 0, 0, 0, 0, 0, 0, 1)
Addr203 == V4(203, 0, 113, 5)

AddrPool ==
    { Addr127001, AddrFe80, Addr203,
      V4(0, 0, 0, 0),                          \* unspecified
      V6(65282, 0, 0, 0, 0, 0, 0, 1),          \* ff02::1, link-local multicast
      V6(65281, 0, 0, 0, 0, 0, 0, 1),          \* ff01::1, interface-local multicast
      V4(239, 1, 1, 1),                        \* multicast
      V6(8193, 3512, 0, 0, 0, 0, 0, 1) }       \* 2001:db8::1

InitAddr ==
    /\ aPoll = NoPoll
    /\ aOut = NotWaiting
    /\ IdleDiff /\ IdleUnit /\ IdleTmpl /\ IdleCmds /\ IdleNorm /\ IdleMgr /\ IdleRun

\* one turn of the loop of WaitForAddress in which Addresses() fails
PollFails ==
    /\ aOut.state \in {"idle", "polling"}
    /\ aPoll' = [polled |-> TRUE, err |-> TRUE, addrs |-> <<>>]
    /\ aOut' = [state |-> "failed", result |-> <<>>]

\* one turn of the loop of WaitForAddress in which Addresses() returns addrs
PollAnswers ==
    /\ aOut.state \in {"idle", "polling"}
    /\ \E addrs \in SeqsUpTo(AddrPool, MaxAddrs) :
        \E result \in {FilterAddrs(addrs)} :
          /\ aPoll' = [polled |-> TRUE, err |-> FALSE, addrs |-> addrs]
          /\ aOut' = IF Len(result) > 0
                     THEN [state |-> "returned", result |-> result]
                     ELSE [state |-> "polling", result |-> <<>>]

NextAddr ==
    \/ PollFails /\ UNCHANGED <<varsDiff, varsUnit, varsTmpl, varsCmds, varsMgr, varsNorm, varsRun>>
    \/ PollAnswers /\ UNCHANGED <<varsDiff, varsUnit, varsTmpl, varsCmds, varsMgr, varsNorm, varsRun>>

\* the addresses the address wait is to keep
Usable(a) ==
    /\ ~IsUnspecified(a) /\ ~IsLoopback(a)
    /\ ~IsLinkLocalUnicast(a) /\ ~IsLinkLocalMulticast(a)
    /\ ~IsInterfaceLocalMulticast(a) /\ ~IsMulticast(a)

\* C10: WaitForAddress returns successfully only with a non-empty list, which
\* is the usable addresses of the last poll in polled order; it goes on polling
\* only after a poll without usable address; it fails only when the address
\* query failed; of 127.0.0.1, fe80::1, 203.0.113.5 it returns 203.0.113.5 only.
WaitReturnsUsable ==
    /\ aOut.state = "returned" =>
          /\ aOut.result # <<>>
          /\ ~aPoll.err
          /\ aOut.result = SelectSeq(aPoll.addrs, Usable)
    /\ aOut.state = "polling" =>
          /\ aPoll.polled /\ ~aPoll.err
          /\ SelectSeq(aPoll.addrs, Usable) = <<>>
    /\ aOut.state = "failed" <=> aPoll.err
    /\ (aOut.state # "idle" /\ aPoll.addrs = <<Addr127001, AddrFe80, Addr203>>) =>
          (aOut.state = "returned" /\ aOut.result = <<Addr203>>)

\* C10 witness: the wait returned from the poll 127.0.0.1, fe80::1, 203.0.113.5
WaitScenario ==
    /\ aOut.state = "returned"
    /\ aPoll.addrs = <<Addr127001, AddrFe80, Addr203>>
    /\ aOut.result = <<Addr203>>

-----------------------------------------------------------------------------
(* cmd/machineutil: MountPoint, Machine (the specification of one machine)    *)

\* unit.UnitNamePathEscape on the paths the configurations use
PathEscape ==
    [p \in {"/var/lib/machines/data", "/srv/logs", "/dev/vdb", "/dev/vdc", "/dev/vdd"} |->
        CASE p = "/var/lib/machines/data" -> "var-lib-machines-data"
          [] p = "/srv/logs" -> "srv-logs"
          [] p = "/dev/vdb" -> "dev-vdb"
          [] p = "/dev/vdc" -> "dev-vdc"
          [] p = "/dev/vdd" -> "dev-vdd"]

UnitNamePathEscape(p) == PathEscape[p]

IsMountOptions(o) == o.Section = "Mount" /\ o.Name = "Options"

\* MountPoint.Normalize
MountNormalize(m) ==
    LET mp   == IF m.MountPoint = "" THEN "/var/lib/machines/" \o m.Name
                ELSE m.MountPoint
        mo1  == IF m.FS # "" THEN Append(m.MountOptions, Opt("Mount", "Type", m.FS))
                ELSE m.MountOptions
        opts == IF m.AutoFs
                THEN (IF m.Options # ""
                      THEN m.Options \o ",x-systemd.makefs,x-systemd.growfs"
                      ELSE "x-systemd.makefs,x-systemd.growfs")
                ELSE m.Options
        mo2  == IF opts = "" THEN mo1
                ELSE IF \E i \in 1..Len(mo1) : IsMountOptions(mo1[i]) THEN
                    LET i == CHOOSE k \in 1..Len(mo1) :
                                 IsMountOptions(mo1[k])
                                 /\ \A j \in 1..(k - 1) : ~IsMountOptions(mo1[j])
                    IN  [mo1 EXCEPT ![i].Value = @ \o "," \o opts]
                ELSE Append(mo1, Opt("Mount", "Options", opts))
    IN  [m EXCEPT !.MountPoint = mp, !.Options = opts, !.MountOptions = mo2]

\* MountPoint.GetNspawn
GetNspawn(m) == << Opt("Files", "Bind", m.MountPoint \o ":" \o m.Target \o ":idmap") >>

\* MountPoint.GetOverride
GetOverride(m) == << Opt("Unit", "RequiresMountsFor", m.MountPoint) >>

\* MountPoint.Unit
MountUnit(m) == UnitNamePathEscape(m.MountPoint) \o ".mount"

MountUnitPath(m) == "/etc/systemd/system/" \o MountUnit(m)

\* the options MountPoint.CreateMount asks EnsureUnit for
CreateMountOpts(m) ==
    << Opt("Unit", "Description", "Machineutil mountpoint " \o m.Name),
       Opt("Unit", "After", "blockdev@" \o UnitNamePathEscape(m.Device)),
       Opt("Mount", "What", m.Device),
       Opt("Mount", "Where", m.MountPoint) >> \o m.MountOptions

\* Machine.Normalize: the mounts from index i on
RECURSIVE NormalizeFrom(_, _)
NormalizeFrom(m, i) ==
    IF i > Len(m.Mounts) THEN m
    ELSE LET mnt == MountNormalize(m.Mounts[i]) IN
         NormalizeFrom([m EXCEPT !.Mounts[i] = mnt,
                                 !.Options = @ \o GetNspawn(mnt),
                                 !.Overrides = @ \o GetOverride(mnt)], i + 1)

MachineNormalize(m) == NormalizeFrom(m, 1)

\* Machine.EnsureOptions, Machine.EnsureOverride: the files
NspawnPath(fqdn) == "/etc/systemd/nspawn/" \o fqdn \o ".nspawn"

OverridePath(fqdn) ==
    "/etc/systemd/system/systemd-nspawn@" \o fqdn \o ".service.d/machineutil.conf"

MachineUnit(fqdn) == "systemd-nspawn@" \o fqdn \o ".service"

\* a RunCommands that runs the post-creation commands before the startup ones
AssembleCommandsPostFirst(m) ==
    m.CommandsPre
    \o (IF m.runCreation THEN m.Creation ELSE <<>>)
    \o (IF m.runCreation THEN m.CreationPost ELSE <<>>)
    \o (IF m.runStartup THEN m.Startup ELSE <<>>)
    \o m.Commands

\* Machine.RunCommands: the list it assembles
AssembleCommands(m) ==
    m.CommandsPre
    \o (IF m.runCreation THEN m.Creation ELSE <<>>)
    \o (IF m.runStartup THEN m.Startup ELSE <<>>)
    \o (IF m.runCreation THEN m.CreationPost ELSE <<>>)
    \o m.Commands

\* Machine.RunCommands, one turn of its loop over the assembled list: ran is
\* what has run so far, ok tells whether the next command succeeds
RunCommandsNextKeepGoing(cmds, ran, ok) ==
    IF Len(ran) = Len(cmds) THEN [state |-> "returned", ran |-> ran, fail |-> 0]
    ELSE [state |-> "running", ran |-> Append(ran, cmds[Len(ran) + 1]), fail |-> 0]

RunCommandsNext(cmds, ran, ok) ==
    IF Len(ran) = Len(cmds) THEN [state |-> "returned", ran |-> ran, fail |-> 0]
    ELSE IF ok THEN
        [state |-> "running", ran |-> Append(ran, cmds[Len(ran) + 1]), fail |-> 0]
    ELSE [state |-> "failed", ran |-> Append(ran, cmds[Len(ran) + 1]),
          fail |-> Len(ran) + 1]

-----------------------------------------------------------------------------
(* SpecCmds: RunCommands on one machine, whatever its lists and run flags     *)

\* a command is known by its label; the lists of one kind are the beginnings
\* of one labelled list
Labelled(l) == {SubSeq(<<l, l \o "2", l \o "3">>, 1, k) : k \in 0..MaxCmds}

NewMachine(fqdn, template, mounts, pre, creation, startup, post, steady) ==
    [Fqdn |-> fqdn, Template |-> template,
     Options |-> << Opt("Exec", "Boot", "yes") >>,
     Overrides |-> << Opt("Service", "Environment", "LANG=C") >>,
     Mounts |-> mounts, Creation |-> creation, CreationPost |-> post,
     Startup |-> startup, CommandsPre |-> pre, Commands |-> steady,
     runCreation |-> FALSE, runStartup |-> FALSE]

CmdMachines ==
    {[NewMachine("m1", <<>>, <<>>, pre, creation, startup, post, steady)
        EXCEPT !.runCreation = rc, !.runStartup = rs] :
        pre \in Labelled("P"), creation \in Labelled("C"),
        startup \in Labelled("S"), post \in Labelled("Q"),
        steady \in Labelled("R"), rc \in BOOLEAN, rs \in BOOLEAN}

InitCmds ==
    /\ cmdRun \in {[NoCmdRun EXCEPT !.m = m] : m \in CmdMachines}
    /\ IdleDiff /\ IdleUnit /\ IdleTmpl /\ IdleAddr /\ IdleNorm /\ IdleMgr /\ IdleRun

\* RunCommands up to its loop
CallRunCommands ==
    /\ cmdRun.state = "idle"
    /\ cmdRun' = [cmdRun EXCEPT !.state = "running",
                                !.cmds = AssembleCommands(cmdRun.m)]

\* one turn of the loop, or the return after it
RunCommand ==
    /\ cmdRun.state = "running"
    /\ \E ok \in BOOLEAN :
        \E r \in {RunCommandsNext(cmdRun.cmds, cmdRun.ran, ok)} :
          cmdRun' = [cmdRun EXCEPT !.state = r.state, !.ran = r.ran,
                                  !.fail = r.fail]

NextCmds ==
    \/ CallRunCommands /\ UNCHANGED <<varsDiff, varsUnit, varsTmpl, varsAddr, varsMgr, varsNorm, varsRun>>
    \/ RunCommand /\ UNCHANGED <<varsDiff, varsUnit, varsTmpl, varsAddr, varsMgr, varsNorm, varsRun>>

\* the place of a command's kind in the order pre, creation, startup,
\* post-creation, steady
KindOf(m, c) ==
    CASE c \in Range(m.CommandsPre) -> 1
      [] c \in Range(m.Creation) -> 2
      [] c \in Range(m.Startup) -> 3
      [] c \in Range(m.CreationPost) -> 4
      [] c \in Range(m.Commands) -> 5

\* the commands of kind k that a run with these flags is to execute
DueOf(m, k) ==
    CASE k = 1 -> m.CommandsPre
      [] k = 2 -> IF m.runCreation THEN m.Creation ELSE <<>>
      [] k = 3 -> IF m.runStartup THEN m.Startup ELSE <<>>
      [] k = 4 -> IF m.runCreation THEN m.CreationPost ELSE <<>>
      [] k = 5 -> m.Commands

\* the subsequence of s whose elements are of kind k
RECURSIVE OfKind(_, _, _)
OfKind(m, s, k) ==
    IF s = <<>> THEN <<>>
    ELSE IF KindOf(m, Head(s)) = k THEN <<Head(s)>> \o OfKind(m, Tail(s), k)
    ELSE OfKind(m, Tail(s), k)

\* C8: a RunCommands in which no command fails has executed, whatever the two
\* run flags, the pre-commands, then the creation commands (only if created),
\* then the startup commands (only if started), then the post-creation commands
\* (only if created), then the steady-state commands, each list in its
\* configured order; with one command per list, created and started, that is
\* P, C, S, Q, R.
PipelineOrder ==
    cmdRun.state = "returned" =>
        LET m == cmdRun.m
            ran == cmdRun.ran
        IN  /\ \A i, j \in 1..Len(ran) : i < j => KindOf(m, ran[i]) <= KindOf(m, ran[j])
            /\ \A k \in 1..5 : OfKind(m, ran, k) = DueOf(m, k)
            /\ (/\ m.CommandsPre = <<"P">> /\ m.Creation = <<"C">>
                /\ m.Startup = <<"S">> /\ m.CreationPost = <<"Q">>
                /\ m.Commands = <<"R">> /\ m.runCreation /\ m.runStartup)
               => ran = <<"P", "C", "S", "Q", "R">>

\* C8 witness: RunCommands has returned for a machine this run created and
\* started, with one command in every list
PipelineAllFive ==
    /\ cmdRun.state = "returned"
    /\ cmdRun.m.runCreation /\ cmdRun.m.runStartup
    /\ cmdRun.m.CommandsPre = <<"P">> /\ cmdRun.m.Creation = <<"C">>
    /\ cmdRun.m.Startup = <<"S">> /\ cmdRun.m.CreationPost = <<"Q">>
    /\ cmdRun.m.Commands = <<"R">>
    /\ Len(cmdRun.ran) = 5

-----------------------------------------------------------------------------
(* SpecNorm: MountPoint.Normalize called again and again on one mount          *)

NormMounts ==
    {[Name |-> "data", Device |-> "/dev/vdb", MountPoint |-> mp, Target |-> "/data",
      FS |-> ftype, Options |-> o, AutoFs |-> auto, MountOptions |-> mo] :
        mp \in {"", "/srv/logs"}, ftype \in {"", "ext4"}, o \in {"", "noatime"},
        auto \in BOOLEAN,
        mo \in { <<>>, << Opt("Mount", "Options", "defaults") >>,
                 << Opt("Unit", "Options", "defaults"), Opt("Mount", "Type", "ext4") >> }}

InitNorm ==
    /\ norm \in {[NoNorm EXCEPT !.given = m, !.now = m] : m \in NormMounts}
    /\ IdleDiff /\ IdleUnit /\ IdleTmpl /\ IdleAddr /\ IdleCmds /\ IdleMgr /\ IdleRun

\* mnt.Normalize(), for the first or the second time
CallNormalize ==
    /\ norm.calls < 2
    /\ \E n \in {MountNormalize(norm.now)} :
          norm' = [norm EXCEPT !.calls = @ + 1, !.now = n,
                               !.once = IF norm.calls = 0 THEN n ELSE @]

NextNorm ==
    CallNormalize /\ UNCHANGED <<varsDiff, varsUnit, varsTmpl, varsAddr, varsCmds, varsMgr, varsRun>>

\* the number of options of a list with this section and name
CountOf(opts, section, name) ==
    Cardinality({i \in 1..Len(opts) : opts[i].Section = section /\ opts[i].Name = name})

\* C11: after a second Normalize of a mount the mount point, the options
\* string and the mount unit options (so the number of Mount/Type and of
\* Mount/Options entries and the value of Mount/Options) are what they were
\* after the first.
NormalizeIdempotent ==
    norm.calls = 2 =>
        /\ norm.now.MountPoint = norm.once.MountPoint
        /\ norm.now.Options = norm.once.Options
        /\ norm.now.MountOptions = norm.once.MountOptions
        /\ CountOf(norm.now.MountOptions, "Mount", "Type")
              = CountOf(norm.once.MountOptions, "Mount", "Type")
        /\ CountOf(norm.now.MountOptions, "Mount", "Options")
              = CountOf(norm.once.MountOptions, "Mount", "Options")

-----------------------------------------------------------------------------
(* machineutil: the manager's image operations                                *)
(*                                                                             *)
(* A machine handle is the name of its image; NoMachine is the nil handle.    *)
(* An error is "" (nil), "ErrNoSuchImage", "ErrAlreadyExists" or "rpc" (what  *)
(* a failed D-Bus call returned).                                             *)

NoMachine == <<>>

\* machineUtil.GetImage: rpcFails tells whether the call fails for a reason
\* other than a missing image
GetImage(world, name, rpcFails) ==
    IF rpcFails THEN "rpc"
    ELSE IF name \in world THEN ""
    ELSE "No image known"

\* a GetMachine that hands machined's error on as it came
GetMachineUnwrapped(world, cache, fqdn, rpcFails) ==
    LET e == GetImage(world, fqdn, rpcFails) IN
    IF e # "" THEN [machine |-> NoMachine, err |-> e, cache |-> cache]
    ELSE [machine |-> fqdn, err |-> "", cache |-> cache \cup {fqdn}]

\* machineUtil.GetMachine, with GetMachineFromImage and AddMachine
GetMachine(world, cache, fqdn, rpcFails) ==
    LET e == GetImage(world, fqdn, rpcFails) IN
    IF e = "No image known" THEN
        [machine |-> NoMachine, err |-> "ErrNoSuchImage", cache |-> cache]
    ELSE IF e # "" THEN [machine |-> NoMachine, err |-> e, cache |-> cache]
    ELSE [machine |-> fqdn, err |-> "", cache |-> cache \cup {fqdn}]

\* a Clone that hands an existing machine back without an error
CloneQuiet(world, cache, src, dst, faults) ==
    LET e == GetImage(world, dst, faults[1]) IN
    IF e = "" THEN
        [machine |-> dst, err |-> "", world |-> world,
         cache |-> cache \cup {dst}, requests |-> <<>>]
    ELSE IF faults[2] \/ src \notin world \/ dst \in world THEN
        [machine |-> NoMachine, err |-> "rpc", world |-> world, cache |-> cache,
         requests |-> << <<src, dst>> >>]
    ELSE LET g == GetMachine(world \cup {dst}, cache, dst, faults[3]) IN
        [machine |-> g.machine, err |-> g.err, world |-> world \cup {dst},
         cache |-> g.cache, requests |-> << <<src, dst>> >>]

\* machineUtil.Clone; faults tells which of its calls (GetImage, CloneImage,
\* GetImage) fail for a reason of the bus. machined refuses CloneImage when the
\* source is missing or the target exists.
Clone(world, cache, src, dst, faults) ==
    LET e == GetImage(world, dst, faults[1]) IN
    IF e = "" THEN
        [machine |-> dst, err |-> "ErrAlreadyExists", world |-> world,
         cache |-> cache \cup {dst}, requests |-> <<>>]
    ELSE IF faults[2] \/ src \notin world \/ dst \in world THEN
        [machine |-> NoMachine, err |-> "rpc", world |-> world, cache |-> cache,
         requests |-> << <<src, dst>> >>]
    ELSE LET g == GetMachine(world \cup {dst}, cache, dst, faults[3]) IN
        [machine |-> g.machine, err |-> g.err, world |-> world \cup {dst},
         cache |-> g.cache, requests |-> << <<src, dst>> >>]

\* Template.Create
TemplateCreate(world, cache, t, fqdn, faults) ==
    Clone(world, cache, Image(t), fqdn, faults)

-----------------------------------------------------------------------------
(* SpecClone: Template.Create against any set of images                       *)

CloneTemplates ==
    { [Name |-> <<"base">>, Version |-> 1, object |-> <<"base", MARK, "1">>],
      [Name |-> <<"base">>, Version |-> 2, object |-> <<"base", MARK, "2">>],
      [Name |-> <<"web">>, Version |-> 1, object |-> <<"web", MARK, "1">>] }

CloneTargets == { <<"m1">>, <<"m2">> }

CloneWorlds == SUBSET ({Image(t) : t \in CloneTemplates} \cup CloneTargets)

FaultChoices == [1..3 -> BOOLEAN]

InitClone ==
    /\ images \in CloneWorlds
    /\ cMachines \in SUBSET (images \cap CloneTargets)
    /\ cloneRes = NoClone
    /\ IdleDiff /\ IdleUnit /\ IdleTmpl /\ IdleAddr /\ IdleCmds /\ IdleNorm /\ IdleRun

CallTemplateCreate ==
    \E t \in CloneTemplates, fqdn \in CloneTargets, faults \in FaultChoices :
        \E r \in {TemplateCreate(images, cMachines, t, fqdn, faults)} :
        /\ images' = r.world
        /\ cMachines' = r.cache
        /\ cloneRes' =
              [called |-> TRUE, src |-> Image(t), dst |-> fqdn,
               existed |-> fqdn \in images, srcExisted |-> Image(t) \in images,
               faults |-> faults, machine |-> r.machine, err |-> r.err,
               requests |-> r.requests, present |-> fqdn \in r.world]

NextClone ==
    CallTemplateCreate /\ UNCHANGED <<varsDiff, varsUnit, varsTmpl, varsAddr, varsCmds, varsNorm, varsRun>>

NoFault == [i \in 1..3 |-> FALSE]

\* C6 as stated: a Create that finds the image there returns the existing
\* handle without an error and asks for no clone; one that finds no image asks
\* for exactly one clone of the template's image under fqdn and returns the new
\* machine's handle (no call failing on the bus).
CreateQuietWhenPresent ==
    (cloneRes.called /\ cloneRes.faults = NoFault) =>
        /\ cloneRes.existed =>
              /\ cloneRes.machine = cloneRes.dst
              /\ cloneRes.err = ""
              /\ cloneRes.requests = <<>>
        /\ (~cloneRes.existed /\ cloneRes.srcExisted) =>
              /\ cloneRes.requests = << <<cloneRes.src, cloneRes.dst>> >>
              /\ cloneRes.machine = cloneRes.dst
              /\ cloneRes.err = ""
              /\ cloneRes.present

\* C6, amended: a Create that finds the image there returns the existing handle
\* together with the error ErrAlreadyExists and asks for no clone; one that
\* finds no image asks for exactly one clone of the template's image under fqdn
\* and returns the new machine's handle without an error (no call failing on
\* the bus, the template's image there).
CreateReportsAlreadyExists ==
    (cloneRes.called /\ cloneRes.faults = NoFault) =>
        /\ cloneRes.existed =>
              /\ cloneRes.machine = cloneRes.dst
              /\ cloneRes.err = "ErrAlreadyExists"
              /\ cloneRes.requests = <<>>
              /\ cloneRes.dst \in cMachines
        /\ (~cloneRes.existed /\ cloneRes.srcExisted) =>
              /\ cloneRes.requests = << <<cloneRes.src, cloneRes.dst>> >>
              /\ cloneRes.machine = cloneRes.dst
              /\ cloneRes.err = ""
              /\ cloneRes.present
              /\ cloneRes.dst \in cMachines

\* C6 witness: a Create of m1 found the image m1 there, no call failing
CreateMetImage ==
    /\ cloneRes.called /\ cloneRes.faults = NoFault
    /\ cloneRes.existed /\ cloneRes.dst = <<"m1">>
    /\ cloneRes.machine = <<"m1">>

-----------------------------------------------------------------------------
(* Spec: runs of the tool on one host                                         *)
(*                                                                             *)
(* The host is the images machined has, the state of each machine, the jobs   *)
(* systemd has queued and the unit files. A run is main from NewState to its  *)
(* exit; a second run of the same command line may follow the first.          *)

mntData1 ==
    [Name |-> "data", Device |-> "/dev/vdb", MountPoint |-> "", Target |-> "/data",
     FS |-> "ext4", Options |-> "noatime", AutoFs |-> TRUE, MountOptions |-> <<>>]

mntData2 ==
    [Name |-> "data", Device |-> "/dev/vdc", MountPoint |-> "", Target |-> "/data",
     FS |-> "", Options |-> "noatime", AutoFs |-> FALSE,
     MountOptions |-> << Opt("Mount", "Options", "defaults") >>]

mntLogs ==
    [Name |-> "logs", Device |-> "/dev/vdd", MountPoint |-> "/srv/logs",
     Target |-> "/var/log", FS |-> "", Options |-> "", AutoFs |-> FALSE,
     MountOptions |-> <<>>]

\* a machine with one command in each of its lists
Plain(fqdn, template, mounts) ==
    NewMachine(fqdn, template, mounts, <<"P">>, <<"C">>, <<"S">>, <<"Q">>, <<"R">>)

\* the configuration files: one machine; one machine with a mount; two
\* machines whose mounts share the default mount point; two machines with
\* different templates; one machine listed twice; a template nobody has
Configs ==
    [one     |-> [DefaultTemplate |-> <<"base">>,
                  Machines |-> << Plain("m1", <<>>, <<>>) >>],
     mount   |-> [DefaultTemplate |-> <<>>,
                  Machines |-> << Plain("m1", <<"base">>, <<mntData1>>) >>],
     shared  |-> [DefaultTemplate |-> <<"base">>,
                  Machines |-> << Plain("m1", <<>>, <<mntData1>>),
                                  Plain("m2", <<>>, <<mntData2>>) >>],
     two     |-> [DefaultTemplate |-> <<"base">>,
                  Machines |-> << Plain("m1", <<>>, <<mntLogs>>),
                                  Plain("m2", <<"web">>, <<>>) >>],
     twice   |-> [DefaultTemplate |-> <<"base">>,
                  Machines |-> << Plain("m1", <<>>, <<>>),
                                  Plain("m1", <<"web">>, <<>>) >>],
     missing |-> [DefaultTemplate |-> <<"base">>,
                  Machines |-> << Plain("m1", <<"none">>, <<>>) >>]]

Modes == {"create", "start", "stop", "destroy"}

Fqdns == {"m1", "m2"}

\* the image of a machine is named after it
ImageOf(fqdn) == <<fqdn>>

TemplateImages ==
    { <<"base", MARK, "1">>, <<"base", MARK, "2">>, <<"web", MARK, "1">> }

\* the unit files a create run leaves for a machine with one mount
Provisioned(m) ==
    LET n   == MachineNormalize(m)
        mnt == n.Mounts[1]
    IN  CreateFile(
          CreateFile(
            CreateFile(<<>>, NspawnPath(n.Fqdn), Serialize(SortOpts(n.Options))),
            OverridePath(n.Fqdn), Serialize(SortOpts(n.Overrides))),
          MountUnitPath(mnt), Serialize(SortOpts(CreateMountOpts(mnt))))

\* the hosts a first run may meet: nothing but templates; m1 there and
\* running, with an nspawn file somebody wrote by hand; m1 and m2 there and
\* stopped; m1 there and running as a create run of the configuration with one
\* mount leaves it
Hosts ==
    { [images |-> TemplateImages,
       status |-> [f \in Fqdns |-> "none"],
       fs     |-> <<>>],
      [images |-> TemplateImages \cup {ImageOf("m1")},
       status |-> [f \in Fqdns |-> IF f = "m1" THEN "running" ELSE "none"],
       fs     |-> CreateFile(<<>>, NspawnPath("m1"),
                             RawBody(<< Opt("Exec", "Boot", "no") >>))],
      [images |-> TemplateImages \cup {ImageOf("m1"), ImageOf("m2")},
       status |-> [f \in Fqdns |-> "none"],
       fs     |-> <<>>],
      [images |-> TemplateImages \cup {ImageOf("m1")},
       status |-> [f \in Fqdns |-> IF f = "m1" THEN "running" ELSE "none"],
       fs     |-> Provisioned(Configs.mount.Machines[1])] }

NoJob == [kind |-> "", unit |-> ""]

\* the locals of main, EnsureMachine, RemoveMachine and what they call
FreshLocals ==
    [template |-> NilTemplate, machine |-> NoMachine, changed |-> FALSE,
     reload |-> FALSE, mounts_changed |-> FALSE, c |-> FALSE, err |-> "",
     mi |-> 1, cmds |-> <<>>, ran |-> <<>>, addr |-> <<>>, job |-> NoJob,
     ret |-> "", after |-> "", fqdn |-> "", logAt |-> 0]

\* main up to "Creating state"
Init ==
    /\ cfgId \in DOMAIN Configs
    /\ mode \in Modes
    /\ \E h \in Hosts : images = h.images /\ status = h.status /\ fs = h.fs
    /\ jobs = {}
    /\ config = Configs[cfgId]
    /\ sTemplates = NotListed /\ sMachines = {} /\ cMachines = {}
    /\ pc = "NewState" /\ idx = 1 /\ loc = FreshLocals
    /\ log = <<>> /\ exit = "run" /\ faulted = FALSE
    /\ run = "first" /\ first = NoFirst /\ ext = FALSE
    /\ cloneRes = NoClone /\ unitRes = NoCall
    /\ IdleDiff /\ IdleTmpl /\ IdleAddr /\ IdleCmds /\ IdleNorm

\* what no step of a run changes
runFixed == <<cfgId, mode, run, first, ext>>

Logged(e, a) == [e |-> e, a |-> a]

\* the log entries of the file operations of one EnsureUnit
RECURSIVE FileLog(_, _)
FileLog(path, ops) ==
    IF ops = <<>> THEN <<>>
    ELSE (CASE Head(ops) = "Remove" -> << Logged("delete", path) >>
            [] Head(ops) = "Create" -> << Logged("write", path) >>
            [] OTHER -> <<>>) \o FileLog(path, Tail(ops))

RECURSIVE CloneLog(_)
CloneLog(requests) ==
    IF requests = <<>> THEN <<>>
    ELSE << Logged("clone", Head(requests)[2]) >> \o CloneLog(Tail(requests))

\* the machine main's loop is at
Cur == config.Machines[idx]

\* os.Exit(1)
ExitFail == pc' = "done" /\ exit' = "fail"

\* NewState: NewMachineUtil and ListTemplates(config.DefaultTemplate)
NewState ==
    /\ pc = "NewState"
    /\ \E rpcFails \in BOOLEAN :
          IF rpcFails
          THEN ExitFail /\ faulted' = TRUE /\ UNCHANGED sTemplates
          ELSE /\ \E c \in Catalogs(images) :
                    sTemplates' = [listed |-> TRUE,
                                   Default |-> config.DefaultTemplate,
                                   Templates |-> c]
               /\ pc' = "loop"
               /\ UNCHANGED <<exit, faulted>>
    /\ UNCHANGED <<runFixed, images, cMachines, status, jobs, fs, config,
                   sMachines, idx, loc, log>>

\* main: the loop is over, "Done."
LoopEnd ==
    /\ pc = "loop" /\ idx > Len(config.Machines)
    /\ pc' = "done" /\ exit' = "ok"
    /\ UNCHANGED <<runFixed, images, cMachines, status, jobs, fs, config,
                   sTemplates, sMachines, idx, loc, log, faulted>>

\* main: the head of one turn of the loop: Normalize, and in create mode
\* DiscoverTemplate
LoopHead ==
    /\ pc = "loop" /\ idx <= Len(config.Machines)
    /\ LET m == MachineNormalize(Cur)
           d == DiscoverTemplate(sTemplates, m.Template)
       IN  /\ config' = [config EXCEPT !.Machines[idx] = m]
           /\ IF mode = "create" /\ d.err
              THEN ExitFail /\ UNCHANGED loc
              ELSE /\ pc' = "em_start"
                   /\ loc' = [FreshLocals EXCEPT
                                 !.template = IF mode = "create"
                                              THEN [found |-> TRUE, template |-> d.template]
                                              ELSE NilTemplate,
                                 !.fqdn = m.Fqdn, !.logAt = Len(log)]
                   /\ UNCHANGED exit
    /\ UNCHANGED <<runFixed, images, cMachines, status, jobs, fs, sTemplates,
                   sMachines, idx, log, faulted>>

\* the return of EnsureMachine to RemoveMachine or to main
EmReturn(l) ==
    /\ loc' = l
    /\ pc' = IF mode = "destroy" THEN "rm_after_em" ELSE "m_after_em"

\* an EnsureMachine that registers the handle whatever the probe said
EmProbeRegistersMissing ==
    /\ pc = "em_start"
    /\ IF Cur.Fqdn \in sMachines
       THEN /\ EmReturn([loc EXCEPT !.machine = ImageOf(Cur.Fqdn)])
            /\ UNCHANGED <<cMachines, sMachines, faulted>>
       ELSE \E rpcFails \in BOOLEAN :
            \E g \in {GetMachine(images, cMachines, ImageOf(Cur.Fqdn), rpcFails)} :
              /\ cMachines' = g.cache
              /\ faulted' = (faulted \/ rpcFails)
              /\ sMachines' = sMachines \cup {Cur.Fqdn}
              /\ IF g.err = "ErrNoSuchImage" /\ loc.template.found
                 THEN /\ pc' = "em_create"
                      /\ loc' = [loc EXCEPT !.err = g.err]
                 ELSE IF g.err # ""
                 THEN EmReturn([loc EXCEPT !.err = g.err])
                 ELSE IF loc.template.found
                      THEN /\ pc' = "em_options"
                           /\ loc' = [loc EXCEPT !.machine = g.machine]
                      ELSE EmReturn([loc EXCEPT !.machine = g.machine])
    /\ UNCHANGED <<runFixed, images, status, jobs, fs, config, sTemplates, idx,
                   log, exit>>

\* an EnsureMachine that asks the manager every time
EmProbeNoMemo ==
    /\ pc = "em_start"
    /\ \E rpcFails \in BOOLEAN :
       \E g \in {GetMachine(images, cMachines, ImageOf(Cur.Fqdn), rpcFails)} :
          /\ cMachines' = g.cache
          /\ faulted' = (faulted \/ rpcFails)
          /\ IF g.err = "ErrNoSuchImage" /\ loc.template.found
             THEN /\ pc' = "em_create"
                  /\ loc' = [loc EXCEPT !.err = g.err]
                  /\ UNCHANGED sMachines
             ELSE IF g.err # ""
             THEN EmReturn([loc EXCEPT !.err = g.err]) /\ UNCHANGED sMachines
             ELSE /\ sMachines' = sMachines \cup {Cur.Fqdn}
                  /\ IF loc.template.found
                     THEN /\ pc' = "em_options"
                          /\ loc' = [loc EXCEPT !.machine = g.machine]
                     ELSE EmReturn([loc EXCEPT !.machine = g.machine])
    /\ UNCHANGED <<runFixed, images, status, jobs, fs, config, sTemplates, idx,
                   log, exit>>

\* EnsureMachine up to template.Create: the memo, then GetMachine
EmProbe ==
    /\ pc = "em_start"
    /\ IF Cur.Fqdn \in sMachines
       THEN /\ EmReturn([loc EXCEPT !.machine = ImageOf(Cur.Fqdn)])
            /\ UNCHANGED <<cMachines, sMachines, faulted>>
       ELSE \E rpcFails \in BOOLEAN :
            \E g \in {GetMachine(images, cMachines, ImageOf(Cur.Fqdn), rpcFails)} :
              /\ cMachines' = g.cache
              /\ faulted' = (faulted \/ rpcFails)
              /\ IF g.err = "ErrNoSuchImage" /\ loc.template.found
                 THEN /\ pc' = "em_create"
                      /\ loc' = [loc EXCEPT !.err = g.err]
                      /\ UNCHANGED sMachines
                 ELSE IF g.err # ""
                 THEN EmReturn([loc EXCEPT !.err = g.err]) /\ UNCHANGED sMachines
                 ELSE /\ sMachines' = sMachines \cup {Cur.Fqdn}
                      /\ IF loc.template.found
                         THEN /\ pc' = "em_options"
                              /\ loc' = [loc EXCEPT !.machine = g.machine]
                         ELSE EmReturn([loc EXCEPT !.machine = g.machine])
    /\ UNCHANGED <<runFixed, images, status, jobs, fs, config, sTemplates, idx,
                   log, exit>>

\* EnsureMachine: "Creating machine", template.Create
EmCreate ==
    /\ pc = "em_create"
    /\ \E faults \in FaultChoices :
        \E r \in {TemplateCreate(images, cMachines, loc.template.template,
                                 ImageOf(Cur.Fqdn), faults)} :
          /\ images' = r.world
          /\ cMachines' = r.cache
          /\ config' = [config EXCEPT !.Machines[idx].runCreation = TRUE]
          /\ log' = log \o CloneLog(r.requests)
          /\ faulted' = (faulted \/ faults[1] \/ r.err = "rpc")
          /\ IF r.err # ""
             THEN /\ EmReturn([loc EXCEPT !.machine = r.machine, !.err = r.err,
                                          !.changed = TRUE])
                  /\ UNCHANGED sMachines
             ELSE /\ sMachines' = sMachines \cup {Cur.Fqdn}
                  /\ pc' = "em_options"
                  /\ loc' = [loc EXCEPT !.machine = r.machine, !.err = "",
                                        !.changed = TRUE]
    /\ UNCHANGED <<runFixed, status, jobs, fs, sTemplates, idx, exit>>

\* the machine name of a handle
NameOf(machine) == machine[1]

\* EnsureMachine: machine.EnsureOptions
EmOptions ==
    /\ pc = "em_options"
    /\ \E fault \in Faults :
        \E r \in {EnsureUnit(fs, NspawnPath(NameOf(loc.machine)), Cur.Options, fault)} :
          /\ fs' = r.fs
          /\ log' = log \o FileLog(NspawnPath(NameOf(loc.machine)), r.ops)
          /\ faulted' = (faulted \/ r.err)
          /\ IF r.err
             THEN EmReturn([loc EXCEPT !.err = "io"])
             ELSE /\ pc' = "em_override"
                  /\ loc' = [loc EXCEPT !.changed = (@ \/ r.changed)]
    /\ UNCHANGED <<runFixed, images, cMachines, status, jobs, config,
                   sTemplates, sMachines, idx, exit>>

\* EnsureMachine: machine.EnsureOverride
EmOverride ==
    /\ pc = "em_override"
    /\ \E fault \in Faults :
        \E r \in {EnsureUnit(fs, OverridePath(NameOf(loc.machine)), Cur.Overrides, fault)} :
          /\ fs' = r.fs
          /\ log' = log \o FileLog(OverridePath(NameOf(loc.machine)), r.ops)
          /\ faulted' = (faulted \/ r.err)
          /\ IF r.err
             THEN EmReturn([loc EXCEPT !.err = "io"])
             ELSE /\ pc' = "em_mounts"
                  /\ loc' = [loc EXCEPT !.changed = (@ \/ r.changed),
                                        !.reload = (@ \/ r.changed),
                                        !.mi = 1, !.mounts_changed = FALSE]
    /\ UNCHANGED <<runFixed, images, cMachines, status, jobs, config,
                   sTemplates, sMachines, idx, exit>>

\* EnsureMounts: one turn of its loop, CreateMount of one mount
EmMount ==
    /\ pc = "em_mounts" /\ loc.mi <= Len(Cur.Mounts)
    /\ \E fault \in Faults :
        \E r \in {EnsureUnit(fs, MountUnitPath(Cur.Mounts[loc.mi]),
                             CreateMountOpts(Cur.Mounts[loc.mi]), fault)} :
          /\ fs' = r.fs
          /\ log' = log \o FileLog(MountUnitPath(Cur.Mounts[loc.mi]), r.ops)
          /\ faulted' = (faulted \/ r.err)
          /\ IF r.err
             THEN EmReturn([loc EXCEPT !.err = "io"])
             ELSE /\ pc' = "em_mounts"
                  /\ loc' = [loc EXCEPT !.mounts_changed = (@ \/ r.changed),
                                        !.mi = @ + 1]
    /\ UNCHANGED <<runFixed, images, cMachines, status, jobs, config,
                   sTemplates, sMachines, idx, exit>>

\* an EnsureMachine whose reload flag looks at the overrides alone
EmMountsDoneNoReload ==
    /\ pc = "em_mounts" /\ loc.mi > Len(Cur.Mounts)
    /\ LET changed == loc.changed \/ loc.mounts_changed
           l == [loc EXCEPT !.changed = changed]
       IN  IF changed
           THEN pc' = "stop_check" /\ loc' = [l EXCEPT !.ret = "em_after_stop"]
           ELSE pc' = "em_after_stop" /\ loc' = l
    /\ UNCHANGED <<runFixed, images, cMachines, status, jobs, fs, config,
                   sTemplates, sMachines, idx, log, exit, faulted>>

\* EnsureMachine after EnsureMounts: machine.Stop() if anything changed
EmMountsDone ==
    /\ pc = "em_mounts" /\ loc.mi > Len(Cur.Mounts)
    /\ LET changed == loc.changed \/ loc.mounts_changed
           l == [loc EXCEPT !.changed = changed,
                            !.reload = (@ \/ loc.mounts_changed)]
       IN  IF changed
           THEN pc' = "stop_check" /\ loc' = [l EXCEPT !.ret = "em_after_stop"]
           ELSE pc' = "em_after_stop" /\ loc' = l
    /\ UNCHANGED <<runFixed, images, cMachines, status, jobs, fs, config,
                   sTemplates, sMachines, idx, log, exit, faulted>>

\* EnsureMachine after machine.Stop(): config.Unmount if a mount unit changed
EmAfterStop ==
    /\ pc = "em_after_stop"
    /\ IF loc.err # "" THEN EmReturn(loc)
       ELSE IF loc.mounts_changed
       THEN pc' = "unmount" /\ loc' = [loc EXCEPT !.mi = 1, !.ret = "em_ret"]
       ELSE EmReturn(loc)
    /\ UNCHANGED <<runFixed, images, cMachines, status, jobs, fs, config,
                   sTemplates, sMachines, idx, log, exit, faulted>>

\* EnsureMachine after config.Unmount
EmAfterUnmount ==
    /\ pc = "em_ret"
    /\ EmReturn(loc)
    /\ UNCHANGED <<runFixed, images, cMachines, status, jobs, fs, config,
                   sTemplates, sMachines, idx, log, exit, faulted>>

-----------------------------------------------------------------------------
(* Machine.Status, Running, Stop, Start; Job.Wait; Machine.Unmount            *)

\* Machine.Status: machined knows no machine that is not registered
Status(name, rpcFails) ==
    IF rpcFails \/ status[name] = "none" THEN [result |-> "", err |-> TRUE]
    ELSE [result |-> status[name], err |-> FALSE]

\* a Running that takes a failed query for a running machine
RunningUnlessKnown(name, rpcFails) ==
    Status(name, rpcFails).err \/ Status(name, rpcFails).result = "running"

\* Machine.Running: a failed query reads as not running
Running(name, rpcFails) ==
    ~Status(name, rpcFails).err /\ Status(name, rpcFails).result = "running"

MachineJob(kind, name) == [kind |-> kind, unit |-> MachineUnit(name), machine |-> name]

MountJob(mnt) == [kind |-> "stop", unit |-> MountUnit(mnt), machine |-> ""]

\* the return of Stop, Start or Unmount to its caller
Return(err) == pc' = loc.ret /\ loc' = [loc EXCEPT !.err = err]

\* Machine.Stop: "if !m.Running() return nil"
StopCheck ==
    /\ pc = "stop_check"
    /\ \E rpcFails \in BOOLEAN :
          /\ faulted' = (faulted \/ rpcFails)
          /\ IF Running(NameOf(loc.machine), rpcFails)
             THEN pc' = "stop_req" /\ UNCHANGED loc
             ELSE Return("")
    /\ UNCHANGED <<runFixed, images, cMachines, status, jobs, fs, config,
                   sTemplates, sMachines, idx, log, exit>>

\* Machine.Stop: manager.Stop of the machine's unit
StopRequest ==
    /\ pc = "stop_req"
    /\ \E rpcFails \in BOOLEAN :
          /\ faulted' = (faulted \/ rpcFails)
          /\ IF rpcFails
             THEN Return("rpc") /\ UNCHANGED <<jobs, log>>
             ELSE /\ jobs' = jobs \cup {MachineJob("stop", NameOf(loc.machine))}
                  /\ log' = Append(log, Logged("stopjob", MachineUnit(NameOf(loc.machine))))
                  /\ pc' = "job_wait"
                  /\ loc' = [loc EXCEPT !.job = MachineJob("stop", NameOf(loc.machine)),
                                        !.after = "stop_loop"]
    /\ UNCHANGED <<runFixed, images, cMachines, status, fs, config,
                   sTemplates, sMachines, idx, exit>>

\* a Job.Wait that returns after its first read
JobWaitAtOnce ==
    /\ pc = "job_wait"
    /\ \E rpcFails \in BOOLEAN :
          /\ rpcFails => loc.job \in jobs
          /\ faulted' = (faulted \/ rpcFails)
    /\ pc' = loc.after
    /\ UNCHANGED <<runFixed, images, cMachines, status, jobs, fs, config,
                   sTemplates, sMachines, idx, loc, log, exit>>

\* Job.Wait: the loop ends when the query of the job's state fails, because
\* the job is gone or because the call failed
JobWait ==
    /\ pc = "job_wait"
    /\ \E rpcFails \in BOOLEAN :
          /\ rpcFails = (loc.job \in jobs)
          /\ faulted' = (faulted \/ rpcFails)
    /\ pc' = loc.after
    /\ UNCHANGED <<runFixed, images, cMachines, status, jobs, fs, config,
                   sTemplates, sMachines, idx, loc, log, exit>>

\* Machine.Stop: "for m.Running()" ends
StopLoop ==
    /\ pc = "stop_loop"
    /\ \E rpcFails \in BOOLEAN :
          /\ ~Running(NameOf(loc.machine), rpcFails)
          /\ rpcFails = (status[NameOf(loc.machine)] = "running")
          /\ faulted' = (faulted \/ rpcFails)
    /\ Return("")
    /\ UNCHANGED <<runFixed, images, cMachines, status, jobs, fs, config,
                   sTemplates, sMachines, idx, log, exit>>

\* Machine.Start: "if m.Running() return nil"
StartCheck ==
    /\ pc = "start_check"
    /\ \E rpcFails \in BOOLEAN :
          /\ faulted' = (faulted \/ rpcFails)
          /\ IF Running(NameOf(loc.machine), rpcFails)
             THEN Return("")
             ELSE pc' = "start_req" /\ UNCHANGED loc
    /\ UNCHANGED <<runFixed, images, cMachines, status, jobs, fs, config,
                   sTemplates, sMachines, idx, log, exit>>

\* Machine.Start: manager.Start of the machine's unit
StartRequest ==
    /\ pc = "start_req"
    /\ \E rpcFails \in BOOLEAN :
          /\ faulted' = (faulted \/ rpcFails)
          /\ IF rpcFails
             THEN Return("rpc") /\ UNCHANGED <<jobs, log>>
             ELSE /\ jobs' = jobs \cup {MachineJob("start", NameOf(loc.machine))}
                  /\ log' = Append(log, Logged("startjob", MachineUnit(NameOf(loc.machine))))
                  /\ pc' = "job_wait"
                  /\ loc' = [loc EXCEPT !.job = MachineJob("start", NameOf(loc.machine)),
                                        !.after = "start_loop"]
    /\ UNCHANGED <<runFixed, images, cMachines, status, fs, config,
                   sTemplates, sMachines, idx, exit>>

\* a Start that is content with the first poll that is answered
StartLoopAnyState ==
    /\ pc = "start_loop"
    /\ \E rpcFails \in BOOLEAN :
        \E r \in {Status(NameOf(loc.machine), rpcFails)} :
          /\ faulted' = (faulted \/ rpcFails)
          /\ Return(IF r.err THEN "rpc" ELSE "")
    /\ UNCHANGED <<runFixed, images, cMachines, status, jobs, fs, config,
                   sTemplates, sMachines, idx, log, exit>>

\* Machine.Start: the loop over Status ends with "running" or with an error
StartLoop ==
    /\ pc = "start_loop"
    /\ \E rpcFails \in BOOLEAN :
        \E r \in {Status(NameOf(loc.machine), rpcFails)} :
          /\ r.err \/ r.result = "running"
          /\ faulted' = (faulted \/ rpcFails)
          /\ Return(IF r.err THEN "rpc" ELSE "")
    /\ UNCHANGED <<runFixed, images, cMachines, status, jobs, fs, config,
                   sTemplates, sMachines, idx, log, exit>>

\* Machine.Unmount: one turn of its loop up to job.Wait
UnmountNext ==
    /\ pc = "unmount" /\ loc.mi <= Len(Cur.Mounts)
    /\ \E rpcFails \in BOOLEAN :
          /\ faulted' = (faulted \/ rpcFails)
          /\ IF rpcFails
             THEN Return("rpc") /\ UNCHANGED <<jobs, log>>
             ELSE /\ jobs' = jobs \cup {MountJob(Cur.Mounts[loc.mi])}
                  /\ log' = Append(log, Logged("stopjob", MountUnit(Cur.Mounts[loc.mi])))
                  /\ pc' = "job_wait"
                  /\ loc' = [loc EXCEPT !.job = MountJob(Cur.Mounts[loc.mi]),
                                        !.after = "unmount", !.mi = @ + 1]
    /\ UNCHANGED <<runFixed, images, cMachines, status, fs, config,
                   sTemplates, sMachines, idx, exit>>

\* Machine.Unmount: the loop is over
UnmountDone ==
    /\ pc = "unmount" /\ loc.mi > Len(Cur.Mounts)
    /\ Return("")
    /\ UNCHANGED <<runFixed, images, cMachines, status, jobs, fs, config,
                   sTemplates, sMachines, idx, log, exit, faulted>>

-----------------------------------------------------------------------------
(* main after EnsureMachine                                                   *)

\* "continue", or the end of one turn of main's loop
Continue == idx' = idx + 1 /\ pc' = "loop"

\* a main that goes on after a missing image in every mode
MainAfterEmLenient ==
    /\ pc = "m_after_em"
    /\ IF loc.err = "ErrNoSuchImage"
       THEN Continue /\ UNCHANGED <<loc, exit>>
       ELSE IF loc.err # "" THEN ExitFail /\ UNCHANGED <<loc, idx>>
       ELSE IF mode = "stop"
       THEN /\ pc' = "stop_check"
            /\ loc' = [loc EXCEPT !.ret = "m_stop_unmount"]
            /\ UNCHANGED <<idx, exit>>
       ELSE /\ pc' = IF loc.reload THEN "m_reload" ELSE "m_running"
            /\ UNCHANGED <<loc, idx, exit>>
    /\ UNCHANGED <<runFixed, images, cMachines, status, jobs, fs, config,
                   sTemplates, sMachines, log, faulted>>

\* a main that never reloads the service manager
MainAfterEmNoReload ==
    /\ pc = "m_after_em"
    /\ IF mode = "stop" /\ loc.err = "ErrNoSuchImage"
       THEN Continue /\ UNCHANGED <<loc, exit>>
       ELSE IF loc.err # "" THEN ExitFail /\ UNCHANGED <<loc, idx>>
       ELSE IF mode = "stop"
       THEN /\ pc' = "stop_check"
            /\ loc' = [loc EXCEPT !.ret = "m_stop_unmount"]
            /\ UNCHANGED <<idx, exit>>
       ELSE /\ pc' = "m_running"
            /\ UNCHANGED <<loc, idx, exit>>
    /\ UNCHANGED <<runFixed, images, cMachines, status, jobs, fs, config,
                   sTemplates, sMachines, log, faulted>>

\* main: what EnsureMachine returned decides
MainAfterEm ==
    /\ pc = "m_after_em"
    /\ IF mode = "stop" /\ loc.err = "ErrNoSuchImage"
       THEN Continue /\ UNCHANGED <<loc, exit>>
       ELSE IF loc.err # "" THEN ExitFail /\ UNCHANGED <<loc, idx>>
       ELSE IF mode = "stop"
       THEN /\ pc' = "stop_check"
            /\ loc' = [loc EXCEPT !.ret = "m_stop_unmount"]
            /\ UNCHANGED <<idx, exit>>
       ELSE /\ pc' = IF loc.reload THEN "m_reload" ELSE "m_running"
            /\ UNCHANGED <<loc, idx, exit>>
    /\ UNCHANGED <<runFixed, images, cMachines, status, jobs, fs, config,
                   sTemplates, sMachines, log, faulted>>

\* main, stop mode: after machine.Stop(), m.Unmount
MainStopUnmount ==
    /\ pc = "m_stop_unmount"
    /\ IF loc.err # "" THEN ExitFail /\ UNCHANGED loc
       ELSE /\ pc' = "unmount"
            /\ loc' = [loc EXCEPT !.mi = 1, !.ret = "m_stop_done"]
            /\ UNCHANGED exit
    /\ UNCHANGED <<runFixed, images, cMachines, status, jobs, fs, config,
                   sTemplates, sMachines, idx, log, faulted>>

\* main, stop mode: after m.Unmount
MainStopDone ==
    /\ pc = "m_stop_done"
    /\ IF loc.err # "" THEN ExitFail /\ UNCHANGED idx
       ELSE Continue /\ UNCHANGED exit
    /\ UNCHANGED <<runFixed, images, cMachines, status, jobs, fs, config,
                   sTemplates, sMachines, loc, log, faulted>>

\* main: DaemonReload when EnsureMachine asked for it
MainReload ==
    /\ pc = "m_reload"
    /\ \E rpcFails \in BOOLEAN :
          /\ faulted' = (faulted \/ rpcFails)
          /\ IF rpcFails THEN ExitFail /\ UNCHANGED log
             ELSE /\ pc' = "m_running"
                  /\ log' = Append(log, Logged("reload", ""))
                  /\ UNCHANGED exit
    /\ UNCHANGED <<runFixed, images, cMachines, status, jobs, fs, config,
                   sTemplates, sMachines, idx, loc>>

\* main: "if !machine.Running()" machine.Start()
MainRunning ==
    /\ pc = "m_running"
    /\ \E rpcFails \in BOOLEAN :
          /\ faulted' = (faulted \/ rpcFails)
          /\ IF Running(NameOf(loc.machine), rpcFails)
             THEN pc' = "m_wait_addr" /\ UNCHANGED loc
             ELSE pc' = "start_check" /\ loc' = [loc EXCEPT !.ret = "m_started"]
    /\ UNCHANGED <<runFixed, images, cMachines, status, jobs, fs, config,
                   sTemplates, sMachines, idx, log, exit>>

\* main: after machine.Start(): runStartup, then the error
MainStarted ==
    /\ pc = "m_started"
    /\ config' = [config EXCEPT !.Machines[idx].runStartup = TRUE]
    /\ IF loc.err # "" THEN ExitFail ELSE pc' = "m_wait_addr" /\ UNCHANGED exit
    /\ UNCHANGED <<runFixed, images, cMachines, status, jobs, fs,
                   sTemplates, sMachines, idx, loc, log, faulted>>

\* what machined may answer to GetAddresses for a registered machine
AddrAnswers == { << AddrFe80 >>, << AddrFe80, Addr203 >> }

\* main: machine.WaitForAddress() returns, with addresses or with an error
MainWaitAddr ==
    /\ pc = "m_wait_addr"
    /\ \E rpcFails \in BOOLEAN, a \in AddrAnswers :
          /\ faulted' = (faulted \/ rpcFails)
          /\ IF rpcFails \/ status[NameOf(loc.machine)] = "none"
             THEN ExitFail /\ UNCHANGED loc
             ELSE /\ FilterAddrs(a) # <<>>
                  /\ pc' = "m_cmds"
                  /\ loc' = [loc EXCEPT !.addr = FilterAddrs(a),
                                        !.cmds = AssembleCommands(Cur),
                                        !.ran = <<>>]
                  /\ UNCHANGED exit
    /\ UNCHANGED <<runFixed, images, cMachines, status, jobs, fs, config,
                   sTemplates, sMachines, idx, log>>

\* main: m.RunCommands(addr), one turn of its loop or its return
MainCommand ==
    /\ pc = "m_cmds"
    /\ \E ok \in BOOLEAN :
        \E r \in {RunCommandsNext(loc.cmds, loc.ran, ok)} :
          /\ loc' = [loc EXCEPT !.ran = r.ran,
                                !.err = IF r.state = "failed" THEN "cmd" ELSE ""]
          /\ log' = IF r.state = "returned" THEN log
                    ELSE Append(log, Logged(IF ok THEN "cmd" ELSE "cmdfail",
                                            <<Cur.Fqdn, r.ran[Len(r.ran)]>>))
          /\ CASE r.state = "returned" -> Continue /\ UNCHANGED exit
               [] r.state = "running" -> UNCHANGED <<pc, idx, exit>>
               [] r.state = "failed" -> ExitFail /\ UNCHANGED idx
    /\ UNCHANGED <<runFixed, images, cMachines, status, jobs, fs, config,
                   sTemplates, sMachines, faulted>>

-----------------------------------------------------------------------------
(* State.RemoveMachine                                                        *)

\* RemoveMachine after EnsureMachine(log, config, nil): machine.Remove() up to
\* the machine.Stop() of machineUtil.Remove; a nil machine is dereferenced
RmAfterEm ==
    /\ pc = "rm_after_em"
    /\ IF loc.err = "ErrNoSuchImage"
       THEN Continue /\ UNCHANGED <<sMachines, loc, exit>>
       ELSE /\ sMachines' = sMachines \ {Cur.Fqdn}
            /\ IF loc.machine = NoMachine
               THEN pc' = "done" /\ exit' = "panic" /\ UNCHANGED <<loc, idx>>
               ELSE /\ IF loc.machine \in cMachines
                       THEN pc' = "stop_check"
                            /\ loc' = [loc EXCEPT !.ret = "rm_remove"]
                       ELSE pc' = "rm_remove" /\ loc' = [loc EXCEPT !.err = ""]
                    /\ UNCHANGED <<idx, exit>>
    /\ UNCHANGED <<runFixed, images, cMachines, status, jobs, fs, config,
                   sTemplates, log, faulted>>

\* machineUtil.Remove after machine.Stop(): RemoveImage
RmRemove ==
    /\ pc = "rm_remove"
    /\ \E rpcFails \in BOOLEAN :
          IF loc.err # "" \/ rpcFails
          THEN /\ ExitFail
               /\ faulted' = (faulted \/ (loc.err = "" /\ rpcFails))
               /\ UNCHANGED <<images, cMachines, log, loc>>
          ELSE /\ images' = images \ {loc.machine}
               /\ cMachines' = cMachines \ {loc.machine}
               /\ log' = Append(log, Logged("removeimage", loc.machine))
               /\ pc' = "unmount"
               /\ loc' = [loc EXCEPT !.mi = 1, !.ret = "rm_unmounted"]
               /\ UNCHANGED <<exit, faulted>>
    /\ UNCHANGED <<runFixed, status, jobs, fs, config, sTemplates, sMachines,
                   idx>>

\* RemoveMachine after config.Unmount
RmUnmounted ==
    /\ pc = "rm_unmounted"
    /\ IF loc.err # "" THEN ExitFail /\ UNCHANGED loc
       ELSE /\ pc' = "rm_mounts"
            /\ loc' = [loc EXCEPT !.mi = 1, !.c = FALSE]
            /\ UNCHANGED exit
    /\ UNCHANGED <<runFixed, images, cMachines, status, jobs, fs, config,
                   sTemplates, sMachines, idx, log, faulted>>

\* RemoveMounts: one turn of its loop, RemoveMount of one mount
RmMount ==
    /\ pc = "rm_mounts" /\ loc.mi <= Len(Cur.Mounts)
    /\ \E fault \in Faults :
        \E r \in {EnsureUnit(fs, MountUnitPath(Cur.Mounts[loc.mi]), <<>>, fault)} :
          /\ fs' = r.fs
          /\ log' = log \o FileLog(MountUnitPath(Cur.Mounts[loc.mi]), r.ops)
          /\ faulted' = (faulted \/ r.err)
          /\ IF r.err THEN ExitFail /\ UNCHANGED loc
             ELSE /\ loc' = [loc EXCEPT !.c = (@ \/ r.changed), !.mi = @ + 1]
                  /\ UNCHANGED <<pc, exit>>
    /\ UNCHANGED <<runFixed, images, cMachines, status, jobs, config,
                   sTemplates, sMachines, idx>>

\* RemoveMachine after RemoveMounts: DaemonReload if a unit file went
RmMountsDone ==
    /\ pc = "rm_mounts" /\ loc.mi > Len(Cur.Mounts)
    /\ \E rpcFails \in BOOLEAN :
          /\ rpcFails => loc.c
          /\ faulted' = (faulted \/ rpcFails)
          /\ IF rpcFails THEN ExitFail /\ UNCHANGED <<log, idx>>
             ELSE /\ log' = IF loc.c THEN Append(log, Logged("reload", "")) ELSE log
                  /\ Continue /\ UNCHANGED exit
    /\ UNCHANGED <<runFixed, images, cMachines, status, jobs, fs, config,
                   sTemplates, sMachines, loc>>

-----------------------------------------------------------------------------
(* The host, and the second run                                               *)

\* systemd finishes a job: a stopped machine is gone from machined, a started
\* one registers and is "opening" or already "running"; a start whose image is
\* missing fails
JobDone ==
    /\ \E j \in jobs :
          /\ jobs' = jobs \ {j}
          /\ IF j.machine = "" THEN UNCHANGED status
             ELSE IF j.kind = "stop"
             THEN status' = [status EXCEPT ![j.machine] = "none"]
             ELSE IF status[j.machine] # "none" \/ ImageOf(j.machine) \notin images
             THEN UNCHANGED status
             ELSE \E st \in {"opening", "running"} :
                    status' = [status EXCEPT ![j.machine] = st]
    /\ ext' = (ext \/ pc = "done" \/ run = "second")
    /\ UNCHANGED <<cfgId, mode, run, first, images, cMachines, fs, config,
                   sTemplates, sMachines, pc, idx, loc, log, exit, faulted>>

\* a machine that was opening is up
MachineUp ==
    /\ \E f \in Fqdns :
          /\ status[f] = "opening"
          /\ status' = [status EXCEPT ![f] = "running"]
    /\ ext' = (ext \/ pc = "done" \/ run = "second")
    /\ UNCHANGED <<cfgId, mode, run, first, images, cMachines, jobs, fs, config,
                   sTemplates, sMachines, pc, idx, loc, log, exit, faulted>>

\* somebody else creates the image while EnsureMachine is between its probe
\* and its clone request
ImageAppears ==
    /\ pc = "em_create" /\ ImageOf(Cur.Fqdn) \notin images
    /\ images' = images \cup {ImageOf(Cur.Fqdn)}
    /\ ext' = TRUE
    /\ UNCHANGED <<cfgId, mode, run, first, cMachines, status, jobs, fs, config,
                   sTemplates, sMachines, pc, idx, loc, log, exit, faulted>>

\* the same command line is run again: a new process, the same host
Rerun ==
    /\ pc = "done" /\ run = "first"
    /\ run' = "second"
    /\ first' = [exit |-> exit, faulted |-> faulted,
                 did |-> {log[p].e : p \in 1..Len(log)}]
    /\ config' = Configs[cfgId]
    /\ sTemplates' = NotListed /\ sMachines' = {} /\ cMachines' = {}
    /\ pc' = "NewState" /\ idx' = 1 /\ loc' = FreshLocals
    /\ log' = <<>> /\ exit' = "run" /\ faulted' = FALSE
    /\ UNCHANGED <<cfgId, mode, ext, images, status, jobs, fs>>

\* what the runs of the tool leave alone
runOthers == <<varsDiff, varsTmpl, varsAddr, varsCmds, varsNorm, unitRes, cloneRes>>

Next ==
    \/ NewState /\ UNCHANGED runOthers
    \/ LoopEnd /\ UNCHANGED runOthers
    \/ LoopHead /\ UNCHANGED runOthers
    \/ EmProbe /\ UNCHANGED runOthers
    \/ EmCreate /\ UNCHANGED runOthers
    \/ EmOptions /\ UNCHANGED runOthers
    \/ EmOverride /\ UNCHANGED runOthers
    \/ EmMount /\ UNCHANGED runOthers
    \/ EmMountsDone /\ UNCHANGED runOthers
    \/ EmAfterStop /\ UNCHANGED runOthers
    \/ EmAfterUnmount /\ UNCHANGED runOthers
    \/ StopCheck /\ UNCHANGED runOthers
    \/ StopRequest /\ UNCHANGED runOthers
    \/ JobWait /\ UNCHANGED runOthers
    \/ StopLoop /\ UNCHANGED runOthers
    \/ StartCheck /\ UNCHANGED runOthers
    \/ StartRequest /\ UNCHANGED runOthers
    \/ StartLoop /\ UNCHANGED runOthers
    \/ UnmountNext /\ UNCHANGED runOthers
    \/ UnmountDone /\ UNCHANGED runOthers
    \/ MainAfterEm /\ UNCHANGED runOthers
    \/ MainStopUnmount /\ UNCHANGED runOthers
    \/ MainStopDone /\ UNCHANGED runOthers
    \/ MainReload /\ UNCHANGED runOthers
    \/ MainRunning /\ UNCHANGED runOthers
    \/ MainStarted /\ UNCHANGED runOthers
    \/ MainWaitAddr /\ UNCHANGED runOthers
    \/ MainCommand /\ UNCHANGED runOthers
    \/ RmAfterEm /\ UNCHANGED runOthers
    \/ RmRemove /\ UNCHANGED runOthers
    \/ RmUnmounted /\ UNCHANGED runOthers
    \/ RmMount /\ UNCHANGED runOthers
    \/ RmMountsDone /\ UNCHANGED runOthers
    \/ JobDone /\ UNCHANGED runOthers
    \/ MachineUp /\ UNCHANGED runOthers
    \/ ImageAppears /\ UNCHANGED runOthers
    \/ Rerun /\ UNCHANGED runOthers

-----------------------------------------------------------------------------
(* SpecWait: one Job.Wait on a host with pending jobs                          *)

WaitJobs ==
    {MachineJob(kind, f) : kind \in {"start", "stop"}, f \in Fqdns}
      \cup {MountJob(MountNormalize(mntData1)), MountJob(MountNormalize(mntLogs))}

\* Job.Wait was called for one of the pending jobs
InitWait ==
    /\ jobs \in (SUBSET WaitJobs) \ {{}}
    /\ \E j \in jobs : loc = [FreshLocals EXCEPT !.job = j, !.after = "waited"]
    /\ images \in {{}, {ImageOf(f) : f \in Fqdns}}
    /\ status \in [Fqdns -> {"none", "running"}]
    /\ pc = "job_wait" /\ idx = 0 /\ log = <<>> /\ exit = "run"
    /\ faulted = FALSE /\ run = "first" /\ first = NoFirst /\ ext = FALSE
    /\ cfgId = "" /\ mode = "" /\ config = <<>>
    /\ sTemplates = NotListed /\ sMachines = {} /\ cMachines = {}
    /\ cloneRes = NoClone
    /\ IdleDiff /\ IdleUnit /\ IdleTmpl /\ IdleAddr /\ IdleCmds /\ IdleNorm

\* Job.Wait returns because the job is gone
JobWaitGone == JobWait /\ loc.job \notin jobs /\ UNCHANGED runOthers

NextWait ==
    \/ JobWait /\ UNCHANGED runOthers
    \/ JobDone /\ UNCHANGED runOthers

\* the spelling of a non-negative integer: digits, with or without a "+"
NonNegative(v) ==
    \/ v # <<>> /\ AllDigits(v)
    \/ Len(v) > 1 /\ Head(v) = "+" /\ AllDigits(Tail(v))

\* C24: the catalog holds a template for exactly the listed images named
\* <name>-template_<version> with <version> a non-negative integer, every
\* template of the catalog has a version >= 0, and every group is in
\* ascending order of version.
CatalogOfTemplates ==
    tCatalog.listed =>
        /\ {t.object : t \in CatalogTemplates}
              = {i \in tImages : Cut(i).found /\ NonNegative(Cut(i).after)}
        /\ \A t \in CatalogTemplates : t.Version >= 0
        /\ \A n \in DOMAIN tCatalog.Templates :
           \A a, b \in 1..Len(tCatalog.Templates[n]) :
              a < b => tCatalog.Templates[n][a].Version <= tCatalog.Templates[n][b].Version

\* C25: for every template of the catalog, Template.Image() is the name of
\* the listed image the template was made from, and no two listed images
\* give templates of the same name and version.
ImageRoundTrip ==
    tCatalog.listed =>
        /\ \A t \in CatalogTemplates : Image(t) = t.object /\ Image(t) \in tImages
        /\ \A t, u \in CatalogTemplates :
              (t.Name = u.Name /\ t.Version = u.Version) => t.object = u.object

-----------------------------------------------------------------------------
(* Properties of the runs                                                     *)

\* what the run has asked of the world since the turn of the loop began
SinceTurn == SubSeq(log, loc.logAt + 1, Len(log))

\* C9: once a command of the assembled pipeline has failed, it is the last
\* thing the run did: no later command of the pipeline ran, RunCommands handed
\* the failure to main, and the run ended with status 1 at that machine,
\* without a turn of the loop for a later one.
CommandFailureAborts ==
    \A p \in 1..Len(log) :
        log[p].e = "cmdfail" =>
            /\ p = Len(log)
            /\ pc = "done" /\ exit = "fail"
            /\ loc.err = "cmd"
            /\ loc.ran = SubSeq(loc.cmds, 1, Len(loc.ran))
            /\ log[p].a = <<loc.fqdn, loc.cmds[Len(loc.ran)]>>
            /\ Cur.Fqdn = loc.fqdn

\* C9 witness: the second of five commands of the first of two machines has
\* failed
SecondCommandFailed ==
    /\ Len(log) > 0 /\ log[Len(log)].e = "cmdfail"
    /\ Len(loc.cmds) = 5 /\ Len(loc.ran) = 2
    /\ idx = 1 /\ Len(config.Machines) = 2

\* C7: a RemoveMachine whose probe found no image (and it finds none whenever
\* there is none and the bus answers) returns nil without having asked for a
\* stop job, an image removal, a unit file deletion or a daemon reload; and a
\* destroy run in which no call fails, be it the first or one right after a
\* destroy run that ended with exit status 0, ends with exit status 0.
DestroyIdempotent ==
    mode = "destroy" =>
        /\ (pc = "rm_after_em" /\ ~faulted /\ ImageOf(loc.fqdn) \notin images)
               => loc.err = "ErrNoSuchImage"
        /\ loc.err = "ErrNoSuchImage" =>
              /\ SinceTurn = <<>>
              /\ pc \in {"rm_after_em", "loop", "done"}
              /\ pc = "done" => exit = "ok"
        /\ (pc = "done" /\ ~faulted /\ (run = "second" => first.exit = "ok"))
               => exit = "ok"

\* C7 witness: a second destroy run has ended with status 0 after a first that
\* stopped the machine, removed its image and deleted its nspawn mount unit
DestroyedTwice ==
    /\ mode = "destroy" /\ run = "second" /\ first.exit = "ok"
    /\ pc = "done" /\ exit = "ok" /\ log = <<>>
    /\ cfgId = "mount" /\ loc.err = "ErrNoSuchImage"
    /\ {"stopjob", "removeimage", "delete"} \subseteq first.did
    /\ ImageOf("m1") \notin images

\* the log entries a run that changes nothing may make: pre-commands and
\* steady-state commands
Quiet(entry) == entry.e \in {"cmd", "cmdfail"} /\ entry.a[2] \in {"P", "R"}

\* C4: a create run in which no call fails, after a create run that ended with
\* status 0 in which none failed, on a host nothing else has touched since,
\* asks for no clone, writes and deletes no unit file, asks for no stop job,
\* no start job and no daemon reload, and runs no creation, post-creation or
\* startup command.
RerunIsNoOp ==
    (/\ mode = "create" /\ run = "second"
     /\ first.exit = "ok" /\ ~first.faulted /\ ~ext /\ ~faulted)
        => \A p \in 1..Len(log) : Quiet(log[p])

\* the indexes of the specifications that bear the name of an earlier one
Duplicates ==
    {j \in 1..Len(config.Machines) :
        \E i \in 1..(j - 1) : config.Machines[i].Fqdn = config.Machines[j].Fqdn}

\* C12: a configuration with two specifications of one name is rejected: the
\* run does not end with status 0, and main's loop never enters a turn for
\* the second specification, so nothing is probed, created, reconfigured,
\* started, stopped or removed for it.
DuplicateNamesRejected ==
    Duplicates # {} =>
        /\ pc = "done" => exit # "ok"
        /\ idx \in Duplicates => pc \in {"loop", "done"}

\* the places where main or RemoveMachine looks at an error it was handed
ErrorPoints ==
    {"m_after_em", "m_stop_unmount", "m_stop_done", "m_started", "rm_after_em",
     "rm_remove", "rm_unmounted"}

\* the missing image that main or RemoveMachine goes on after
Forgiven ==
    /\ loc.err = "ErrNoSuchImage"
    /\ \/ mode = "stop" /\ pc = "m_after_em"
       \/ mode = "destroy" /\ pc = "rm_after_em"

\* C13: the loop goes through the machines in document order, one step
\* forward at a time and only from the end of a machine's turn; an error
\* handed to main or RemoveMachine ends the run at once with a status other
\* than 0, with nothing more asked of the host, unless it is the missing
\* image in stop mode or destroy mode, after which the loop goes on with the
\* next machine; a missing image in start mode or create mode and a template
\* that cannot be resolved in create mode end the run; a run that has ended
\* does nothing more.
DocumentOrder ==
    [][/\ run' = run =>
            /\ idx' \in {idx, idx + 1}
            /\ idx' = idx + 1 =>
                  /\ pc' = "loop"
                  /\ pc \in {"m_cmds", "m_stop_done", "m_after_em", "rm_after_em",
                             "rm_mounts"}
       /\ (pc \in ErrorPoints /\ loc.err # "" /\ pc' # pc) =>
            IF Forgiven
            THEN pc' = "loop" /\ idx' = idx + 1 /\ exit' = "run"
            ELSE /\ pc' = "done" /\ exit' \in {"fail", "panic"}
                 /\ idx' = idx /\ log' = log
                 /\ images' = images /\ fs' = fs /\ jobs' = jobs
       /\ (/\ pc = "loop" /\ idx <= Len(config.Machines) /\ mode = "create"
           /\ DiscoverTemplate(sTemplates, Cur.Template).err /\ pc' # pc) =>
              pc' = "done" /\ exit' = "fail" /\ log' = log
       /\ (pc = "done" /\ run' = run) =>
              pc' = pc /\ exit' = exit /\ log' = log /\ idx' = idx /\ fs' = fs
              /\ images' = images
      ]_vars

\* C13 witness: a start run has ended with status 1 at the first of two
\* machines, whose image is missing, and has asked nothing of the host
MissingImageEndsStart ==
    /\ mode = "start" /\ pc = "done" /\ exit = "fail" /\ ~faulted
    /\ loc.err = "ErrNoSuchImage" /\ idx = 1 /\ Len(config.Machines) = 2
    /\ log = <<>>

\* C14: a run in which a call into the service manager or the container
\* manager has failed (other than by the no-such-image answer) ends with
\* status 1: the failure is not swallowed (the run does not end with status
\* 0) and does not crash the process, and RemoveMachine calls nothing on a
\* handle it did not get.
FailureEndsRun ==
    /\ (pc = "done" /\ faulted) => exit = "fail"
    /\ pc \in {"rm_remove", "rm_unmounted", "rm_mount", "rm_mounts"} =>
            loc.machine # NoMachine

\* C15: an EnsureMachine call for a name that the registry of this run
\* already holds returns at once with the registered handle, changed = false,
\* reload = false and no error, and does nothing else: no call over the bus
\* (none can fail, the manager's state and cache are as before), no unit file
\* read or written, no job, no request, and the registry is as before.
MemoizedEnsure ==
    [][(pc = "em_start" /\ Cur.Fqdn \in sMachines /\ pc' # pc) =>
          /\ pc' \in {"m_after_em", "rm_after_em"}
          /\ loc'.machine = ImageOf(Cur.Fqdn)
          /\ ~loc'.changed /\ ~loc'.reload /\ loc'.err = ""
          /\ sMachines' = sMachines /\ cMachines' = cMachines
          /\ images' = images /\ fs' = fs /\ jobs' = jobs /\ status' = status
          /\ log' = log /\ faulted' = faulted /\ config' = config
      ]_vars

\* C15 witness: the second specification of the name m1 got the handle that
\* the first one registered
MemoAnswered ==
    /\ cfgId = "twice" /\ mode = "create" /\ idx = 2 /\ pc = "m_after_em"
    /\ "m1" \in sMachines /\ loc.machine = ImageOf("m1") /\ loc.err = ""

\* C16: an EnsureMachine call without a template, for a name that is not
\* registered and has no image, whose probe is answered, returns
\* ErrNoSuchImage and leaves everything as it was: no clone request, no unit
\* file read or written, no job, no registry entry, runCreation not set.  And
\* a clone is requested only by an EnsureMachine that has a template and
\* whose probe answered ErrNoSuchImage.
NoTemplateNoCreation ==
    [][/\ (/\ pc = "em_start" /\ ~loc.template.found /\ pc' # pc
           /\ Cur.Fqdn \notin sMachines /\ ImageOf(Cur.Fqdn) \notin images
           /\ loc'.err # "rpc") =>
              /\ loc'.err = "ErrNoSuchImage"
              /\ pc' \in {"m_after_em", "rm_after_em"}
              /\ ~loc'.changed /\ ~loc'.reload
              /\ images' = images /\ fs' = fs /\ jobs' = jobs /\ log' = log
              /\ sMachines' = sMachines
              /\ ~config'.Machines[idx].runCreation
       /\ (\/ \E i \in 1..Len(log') : log'[i].e = "clone" /\ (i > Len(log) \/ log[i] # log'[i])
           \/ \E i \in 1..Len(config.Machines) :
                  config'.Machines[i].runCreation /\ ~config.Machines[i].runCreation) =>
              /\ pc = "em_create" /\ loc.template.found
              /\ loc.err = "ErrNoSuchImage"
              /\ Cur.Fqdn \notin sMachines
      ]_vars

\* C16 witness: in stop mode the probe of a machine without image has
\* returned ErrNoSuchImage to main and nothing was asked of the host
MissingStaysAbsent ==
    /\ mode = "stop" /\ pc = "m_after_em" /\ loc.err = "ErrNoSuchImage"
    /\ ~loc.template.found /\ Cur.Fqdn \notin sMachines
    /\ ImageOf(Cur.Fqdn) \notin images /\ log = <<>>

\* C17: EnsureMachine never returns ErrAlreadyExists to main (a clone that
\* finds the image present is not a failure), and a specification has
\* runCreation set only if this run requested the clone of its image.
AlreadyExistsTolerated ==
    /\ pc \in {"m_after_em", "done"} => loc.err # "ErrAlreadyExists"
    /\ \A i \in 1..Len(config.Machines) :
          config.Machines[i].runCreation =>
             \E p \in 1..Len(log) :
                 log[p].e = "clone" /\ log[p].a = ImageOf(config.Machines[i].Fqdn)

\* a unit file at path was written or deleted in the current turn
Touched(path) ==
    \E p \in (loc.logAt + 1)..Len(log) :
        log[p].e \in {"write", "delete"} /\ log[p].a = path

\* the image of the current machine was cloned in the current turn
CreatedNow ==
    \E p \in (loc.logAt + 1)..Len(log) :
        log[p].e = "clone" /\ log[p].a = ImageOf(Cur.Fqdn)

\* C18: when EnsureMachine, called with a template for a name it has not
\* answered before, returns without error, then all three reconciliations
\* were made (the options file, the override file and every mount unit file
\* hold what the specification asks for), changed = created or options file
\* changed or override file changed or some mount unit file changed, and
\* reload = override file changed or some mount unit file changed.
FlagsSumUp ==
    (/\ pc = "m_after_em" /\ loc.err = "" /\ loc.template.found
     /\ idx \notin Duplicates) =>
        LET o  == Touched(NspawnPath(Cur.Fqdn))
            v  == Touched(OverridePath(Cur.Fqdn))
            mt == \E i \in 1..Len(Cur.Mounts) : Touched(MountUnitPath(Cur.Mounts[i]))
        IN  /\ loc.changed = (CreatedNow \/ o \/ v \/ mt)
            /\ loc.reload = (v \/ mt)
            /\ ~EnsureUnit(fs, NspawnPath(Cur.Fqdn), Cur.Options, "none").changed
            /\ ~EnsureUnit(fs, OverridePath(Cur.Fqdn), Cur.Overrides, "none").changed
            /\ \A i \in 1..Len(Cur.Mounts) :
                  ~EnsureUnit(fs, MountUnitPath(Cur.Mounts[i]),
                              CreateMountOpts(Cur.Mounts[i]), "none").changed

\* C18 witness: EnsureMachine returned for an existing machine whose mount
\* unit file alone had to be written
OnlyMountChanged ==
    /\ pc = "m_after_em" /\ loc.err = "" /\ loc.template.found
    /\ idx \notin Duplicates /\ ~CreatedNow
    /\ ~Touched(NspawnPath(Cur.Fqdn)) /\ ~Touched(OverridePath(Cur.Fqdn))
    /\ \E i \in 1..Len(Cur.Mounts) : Touched(MountUnitPath(Cur.Mounts[i]))
    /\ loc.changed /\ loc.reload

\* C19: when the options file or the override file of a machine was changed
\* in an EnsureMachine call, the machine.Stop() of that call returns without
\* error only when the machine is not running: the machine does not go on
\* running with options or overrides it was not started with.
ChangedOptionsStop ==
    [][(/\ pc \in {"stop_check", "stop_loop"} /\ loc.ret = "em_after_stop"
        /\ pc' = "em_after_stop" /\ loc'.err = ""
        /\ (Touched(NspawnPath(Cur.Fqdn)) \/ Touched(OverridePath(Cur.Fqdn)))) =>
            status[NameOf(loc.machine)] # "running"
      ]_vars

\* C20: in a create run, every write of a mount unit file of the current
\* machine comes after the stop job of that mount unit was issued in the same
\* turn (the unmount precedes the rewrite of the unit file).
UnmountBeforeRewrite ==
    (mode = "create" /\ pc # "loop" /\ idx \in 1..Len(config.Machines)) =>
        \A i \in 1..Len(Cur.Mounts) :
        \A k \in (loc.logAt + 1)..Len(log) :
            (log[k].e = "write" /\ log[k].a = MountUnitPath(Cur.Mounts[i])) =>
                \E j \in (loc.logAt + 1)..(k - 1) :
                    log[j].e = "stopjob" /\ log[j].a = MountUnit(Cur.Mounts[i])

\* C21: in a destroy run the image of the current machine is removed only
\* after every mount of the machine was unmounted in the same turn (the stop
\* job of each mount unit was issued before the RemoveImage request).
UnmountBeforeRemoveImage ==
    (mode = "destroy" /\ pc # "loop" /\ idx \in 1..Len(config.Machines)) =>
        \A k \in (loc.logAt + 1)..Len(log) :
            (log[k].e = "removeimage" /\ log[k].a = ImageOf(Cur.Fqdn)) =>
                \A i \in 1..Len(Cur.Mounts) :
                    \E j \in (loc.logAt + 1)..(k - 1) :
                        log[j].e = "stopjob" /\ log[j].a = MountUnit(Cur.Mounts[i])

\* the number of jobs of one kind requested for the unit of the current
\* machine in the current turn
JobsAsked(kind) ==
    Cardinality({p \in (loc.logAt + 1)..Len(log) :
                    log[p].e = kind /\ log[p].a = MachineUnit(Cur.Fqdn)})

\* C22: Machine.Start returns at once, without a job, when its first state
\* query answers "running"; otherwise it requests one start job, waits for
\* the job, and only then polls the state: it returns nil only from a poll
\* that answered "running" and returns an error only from a poll that failed.
\* Machine.Stop returns at once, without a job, when its first query does not
\* answer "running" (a failed query included); otherwise it requests one stop
\* job, waits for it, and returns nil only from a query that did not answer
\* "running".  Job.Wait ends only when the job is gone or its query failed.
StartStopProtocol ==
    /\ []((idx \in 1..Len(config.Machines) /\ pc \notin {"loop", "done"}) =>
            /\ JobsAsked("startjob") <= 1 /\ JobsAsked("stopjob") <= 1
            /\ pc = "start_loop" => JobsAsked("startjob") = 1
            /\ pc = "stop_loop" => JobsAsked("stopjob") = 1)
    /\ [][LET name == NameOf(loc.machine) IN
          /\ (pc = "start_check" /\ pc' # pc) =>
                /\ jobs' = jobs /\ log' = log
                /\ \/ pc' = loc.ret /\ loc'.err = "" /\ status[name] = "running"
                   \/ pc' = "start_req" /\ (status[name] # "running" \/ faulted')
          /\ (pc = "start_req" /\ pc' # pc) =>
                \/ /\ pc' = loc.ret /\ loc'.err = "rpc" /\ faulted'
                   /\ jobs' = jobs /\ log' = log
                \/ /\ pc' = "job_wait" /\ loc'.after = "start_loop"
                   /\ jobs' = jobs \cup {MachineJob("start", name)}
                   /\ log' = Append(log, Logged("startjob", MachineUnit(name)))
          /\ (pc = "job_wait" /\ pc' # pc) =>
                /\ pc' = loc.after /\ log' = log
                /\ loc.job \notin jobs \/ faulted'
          /\ (pc' = "start_loop" /\ pc # pc') => pc = "job_wait"
          /\ (pc = "start_loop" /\ pc' # pc) =>
                /\ pc' = loc.ret /\ log' = log /\ jobs' = jobs
                /\ \/ loc'.err = "" /\ status[name] = "running"
                   \/ loc'.err = "rpc" /\ (faulted' \/ status[name] = "none")
          /\ (pc = "stop_check" /\ pc' # pc) =>
                /\ jobs' = jobs /\ log' = log
                /\ \/ /\ pc' = loc.ret /\ loc'.err = ""
                      /\ status[name] # "running" \/ faulted'
                   \/ pc' = "stop_req" /\ status[name] = "running"
          /\ (pc = "stop_req" /\ pc' # pc) =>
                \/ /\ pc' = loc.ret /\ loc'.err = "rpc" /\ faulted'
                   /\ jobs' = jobs /\ log' = log
                \/ /\ pc' = "job_wait" /\ loc'.after = "stop_loop"
                   /\ jobs' = jobs \cup {MachineJob("stop", name)}
                   /\ log' = Append(log, Logged("stopjob", MachineUnit(name)))
          /\ (pc' = "stop_loop" /\ pc # pc') => pc = "job_wait"
          /\ (pc = "stop_loop" /\ pc' # pc) =>
                /\ pc' = loc.ret /\ loc'.err = "" /\ log' = log /\ jobs' = jobs
                /\ status[name] # "running" \/ faulted'
         ]_vars

\* C22 witness: Start has returned nil after its one start job, in a run
\* where no call failed, and the machine runs
StartedByJob ==
    /\ pc = "m_started" /\ loc.err = "" /\ ~faulted
    /\ JobsAsked("startjob") = 1
    /\ status[Cur.Fqdn] = "running"

\* C23: Job.Wait returns only when a read of the job's state has failed (the
\* job is gone, or the call failed), never while the job is there and the
\* read is answered; it reports no error; and when every pending job ends,
\* Job.Wait returns.
WaitReturns ==
    /\ [][(pc = "job_wait" /\ pc' # pc) =>
            /\ loc.job \notin jobs \/ (faulted' /\ ~faulted)
            /\ pc' = loc.after /\ loc' = loc /\ loc.err = ""
            /\ jobs' = jobs /\ log' = log
         ]_vars
    /\ (pc = "job_wait") ~> (pc = "waited")

\* C23 witness: Job.Wait has returned without any failed call, after its job
\* was taken off the host
WaitedForJob ==
    pc = "waited" /\ ~faulted /\ loc.job \in WaitJobs /\ loc.job \notin jobs

\* the phase of a turn of a create run that a request belongs to
Phase(entry) ==
    CASE entry.e = "clone" -> 1
      [] entry.e \in {"write", "delete"} -> 2
      [] entry.e = "stopjob" -> 3
      [] entry.e = "reload" -> 4
      [] entry.e = "startjob" -> 5
      [] entry.e \in {"cmd", "cmdfail"} -> 6
      [] OTHER -> 0

\* a write or a delete of an override file or of a mount unit file
NeedsReload(entry) ==
    /\ entry.e \in {"write", "delete"}
    /\ entry.a \notin {NspawnPath(f) : f \in Fqdns}

\* C26: in a create run, (a) the mounts of the specification at hand were
\* normalized exactly once before EnsureMachine looks at a unit file, and the
\* specifications still to come are untouched; (b) the requests of one turn
\* come in the order clone, unit file writes, stop jobs (the machine, then
\* its mounts), daemon reload, start job, commands, with at most one reload
\* and one clone; (c) in the run, between a write of an override or mount
\* unit file and a later start job there is a daemon reload; (d) the address
\* wait begins only after the machine was seen running (by main or by the
\* successful Start), and commands run only after WaitForAddress returned a
\* usable address.
CreatePhases ==
    /\ [](mode = "create" =>
            /\ (pc \notin {"NewState", "loop"} /\ idx \in 1..Len(config.Machines)) =>
                  /\ pc # "done" =>
                        Cur.Mounts = MachineNormalize(Configs[cfgId].Machines[idx]).Mounts
                  /\ \A a, b \in (loc.logAt + 1)..Len(log) :
                        a < b => Phase(log[a]) <= Phase(log[b])
                  /\ Cardinality({p \in (loc.logAt + 1)..Len(log) :
                                    log[p].e \in {"reload", "clone"}}) <= 2
                  /\ \A a, b \in (loc.logAt + 1)..Len(log) :
                        (a < b /\ log[a].e = log[b].e) => log[a].e \notin {"reload", "clone"}
            /\ \A j \in 1..Len(config.Machines) :
                  (j > idx \/ (j = idx /\ pc \in {"NewState", "loop"})) =>
                      config.Machines[j] = Configs[cfgId].Machines[j]
            /\ \A a, b \in 1..Len(log) :
                  (a < b /\ NeedsReload(log[a]) /\ log[b].e = "startjob") =>
                      \E r \in (a + 1)..(b - 1) : log[r].e = "reload")
    /\ [][mode = "create" =>
            /\ (pc' = "m_wait_addr" /\ pc # pc') =>
                  \/ pc = "m_running" /\ status[NameOf(loc.machine)] = "running"
                  \/ pc = "m_started" /\ loc.err = ""
            /\ (pc' = "m_cmds" /\ pc # pc') =>
                  /\ pc = "m_wait_addr"
                  /\ loc'.addr # <<>>
                  /\ \A i \in 1..Len(loc'.addr) : Usable(loc'.addr[i])
            /\ (Len(log') > Len(log) /\ Phase(log'[Len(log')]) = 6) =>
                  pc = "m_cmds" /\ loc.addr # <<>>
         ]_vars

\* C26 witness: one turn of a create run went through every phase without a
\* failed call: clone, unit file writes, unmount, reload, start job, command
AllPhases ==
    /\ mode = "create" /\ pc = "m_cmds" /\ ~faulted
    /\ \A ph \in 1..6 : \E p \in (loc.logAt + 1)..Len(log) : Phase(log[p]) = ph

-----------------------------------------------------------------------------
(* Specifications *)

SpecDiff == InitDiff /\ [][NextDiff]_vars

SpecUnit == InitUnit /\ [][NextUnit]_vars

SpecTmpl == InitTmpl /\ [][NextTmpl]_vars

SpecAddr == InitAddr /\ [][NextAddr]_vars

SpecCmds == InitCmds /\ [][NextCmds]_vars

SpecClone == InitClone /\ [][NextClone]_vars

Spec == Init /\ [][Next]_vars

SpecNorm == InitNorm /\ [][NextNorm]_vars

SpecWait ==
    /\ InitWait /\ [][NextWait]_vars
    /\ WF_vars(JobDone /\ UNCHANGED runOthers)
    /\ WF_vars(JobWaitGone)

====
